---- MODULE Spec2Model ----
(***************************************************************************)
(* A model of infinite-rs: the module (archive) loader, the payload        *)
(* assembly of a file entry and the synthesis of tag paths.                *)
(*                                                                         *)
(* Conventions.  Rust indices are 0-based and kept so in every record      *)
(* field; a TLA+ sequence s holds Rust element i at s[i + 1].  An          *)
(* Option<T> is a sequence of length 0 (None) or 1 (Some).  A Rust String  *)
(* is the sequence of its UTF-8 bytes.  A Result is a record whose field   *)
(* result is "ok", "error" (with err) or "panic" (the call unwinds).       *)
(***************************************************************************)
EXTENDS Integers, Sequences, FiniteSets, TLC

VARIABLES
    archive,          \* the files on disk and the build profile (inputs)
    phase,            \* "closed" | "open" | "failed" | "panicked"
    header,           \* ModuleFile::header
    files,            \* ModuleFile::files
    resource_indices, \* ModuleFile::resource_indices
    blocks,           \* ModuleFile::blocks
    file_data_offset, \* ModuleFile::file_data_offset
    hd1_file,         \* ModuleFile::hd1_file is Some
    op,               \* what the last call did and returned
    returned          \* what the last call was given and handed back besides

vars == <<archive, phase, header, files, resource_indices, blocks,
          file_data_offset, hd1_file, op, returned>>

----------------------------------------------------------------------------
(* Integer widths *)

Pow2(n) == 2 ^ n

\* TLC computes with 32-bit integers: a u64 is modelled with U64Bits bits, the
\* top 16 of them being the flag bits of a file entry's data offset
U64Bits == 28

U64 == Pow2(U64Bits)

I64Max == Pow2(U64Bits - 1) - 1

\* a - b on u64: a checked build panics on underflow, an unchecked build wraps
SubU64(a, b, checked) ==
    IF a >= b THEN [result |-> "ok", val |-> a - b]
    ELSE IF checked THEN [result |-> "panic", val |-> 0]
    ELSE [result |-> "ok", val |-> a - b + U64]

\* a + b on u64: a checked build panics on overflow, an unchecked build wraps
AddU64(a, b, checked) ==
    IF a + b < U64 THEN [result |-> "ok", val |-> a + b]
    ELSE IF checked THEN [result |-> "panic", val |-> 0]
    ELSE [result |-> "ok", val |-> a + b - U64]

----------------------------------------------------------------------------
(* Byte sequences *)

Zeros(n) == [i \in 1..n |-> 0]

\* s[from .. from + len) with from 0-based
Slice(s, from, len) == [i \in 1..len |-> s[from + i]]

\* dst with dst[at .. at + Len(src)) replaced by src
Splice(dst, at, src) ==
    [i \in 1..Len(dst) |->
        IF i > at /\ i <= at + Len(src) THEN src[i - at] ELSE dst[i]]

U32LE(s, off) ==
    s[off + 1] + 256 * s[off + 2] + 65536 * s[off + 3] + 16777216 * s[off + 4]

\* little-endian i32
I32LE(s, off) ==
    s[off + 1] + 256 * s[off + 2] + 65536 * s[off + 3]
        + 16777216 * (IF s[off + 4] >= 128 THEN s[off + 4] - 256 ELSE s[off + 4])

NoErr == [kind |-> "none", arg |-> 0]

Err(k, a) == [kind |-> k, arg |-> a]

----------------------------------------------------------------------------
(* Program constants *)

MODULE_HEADER_MAGIC == 1684631405

TAG_HEADER_MAGIC == 1752392565

TAG_HEADER_VERSION == 27

Flight1 == 48

Release == 51

CampaignFlight == 52

Season3 == 53

ModuleVersions == {Flight1, Release, CampaignFlight, Season3}

\* FileEntryFlags bits
RAW_FILE == 4

\* DataOffsetType bits
USE_HD1 == 1

DEBUG == 2

\* bitflags contains(): every bit of flag is set in bits
Contains(bits, flag) == (bits \div flag) % 2 = 1

\* depth at which get_tag_path gives up
MaxRecursionDepth == 3

\* scratch padding of the Kraken wrapper
KrakenPadding == 8

\* bytes of a tag header
TagHeaderSize == 80

TagDataBlockSize == 16

TagStructSize == 32

TagDependencySize == 24

TagDataReferenceSize == 20

----------------------------------------------------------------------------
(* The archives on disk *)

\* absolute position of the end of the module header
HeaderSize(version) == IF version >= Release THEN 80 ELSE 72

FileEntrySize == 88

BlockEntrySize == 20

\* position of the string table
StringsOffset(a) == HeaderSize(a.version) + FileEntrySize * Len(a.entries)

\* position after the block table
TablesEnd(a) ==
    StringsOffset(a) + Len(a.strings) + 4 * Len(a.resource_indices)
        + BlockEntrySize * Len(a.blocks)

\* AlignedDataOffset leaving an aligned position where it is
AlignedUp(pos) == ((pos + 4095) \div 4096) * 4096

\* Align to 0x?????000
AlignedDataOffset(pos) == (pos \div 4096 + 1) * 4096

\* length of an archive file
FileLen(a, src) ==
    IF src = "hd1" THEN Len(a.hd1_data)
    ELSE AlignedDataOffset(TablesEnd(a)) + Len(a.data)

\* read_exact of n bytes at pos; seeking past i64::MAX is refused by the OS
ReadExact(a, src, pos, n) ==
    IF pos > I64Max \/ pos + n > FileLen(a, src)
    THEN [result |-> "error", err |-> Err("ReadError", 0), bytes |-> <<>>]
    ELSE [result |-> "ok", err |-> NoErr,
          bytes |-> IF src = "hd1" THEN Slice(a.hd1_data, pos, n)
                    ELSE Slice(a.data, pos - AlignedDataOffset(TablesEnd(a)), n)]

----------------------------------------------------------------------------
(* module/kraken.rs *)

\* what the native decompressor writes for src when asked for size bytes: the
\* bytes are a function of the input (the decompressor is stateless)
KrakenOutput(src, size) ==
    [i \in 1..size |->
        IF Len(src) = 0 THEN 0 ELSE (src[((i - 1) % Len(src)) + 1] + 1) % 256]

\* the values the native decompressor may return for an expected size: a
\* failure, a count up to the size and one past it, and the counts at and past
\* the end of the scratch buffer
KrakenReturns(size) ==
    {-1} \cup 0..(size + 1) \cup {size + KrakenPadding, size + KrakenPadding + 1}

\* Decompress handing over the scratch buffer without resizing it
DecompressWhole(src, out, size, r) ==
    LET buffer == KrakenOutput(src, size) \o Zeros(KrakenPadding) IN
    IF r < 0
    THEN [result |-> "error", err |-> Err("DecompressionFailed", r), out |-> out,
          val |-> r]
    ELSE IF r > Len(buffer)
    THEN [result |-> "error", err |-> Err("BufferSizeOverflow", 0), out |-> out,
          val |-> r]
    ELSE [result |-> "ok", err |-> NoErr, out |-> buffer, val |-> r]

\* decompress(compressed_buffer, output_buffer, size), the native call returning
\* r: out is the output buffer afterwards and val the native return, handed
\* back in Ok when the call succeeds
Decompress(src, out, size, r) ==
    LET buffer == KrakenOutput(src, size) \o Zeros(KrakenPadding) IN
    IF r < 0
    THEN [result |-> "error", err |-> Err("DecompressionFailed", r), out |-> out,
          val |-> r]
    ELSE IF r > Len(buffer)
    THEN [result |-> "error", err |-> Err("BufferSizeOverflow", 0), out |-> out,
          val |-> r]
    ELSE [result |-> "ok", err |-> NoErr, out |-> SubSeq(buffer, 1, r), val |-> r]

----------------------------------------------------------------------------
(* tag/header.rs and the tag loader *)

\* TagHeader::read on the bytes of a payload, the cursor at 0
TagHeaderRead(bytes) ==
    IF Len(bytes) < 4
    THEN [result |-> "error", err |-> Err("ReadError", 0), pos |-> Len(bytes)]
    ELSE IF U32LE(bytes, 0) # TAG_HEADER_MAGIC
    THEN [result |-> "error", err |-> Err("TagError::IncorrectMagic", U32LE(bytes, 0)), pos |-> 4]
    ELSE IF Len(bytes) < 8
    THEN [result |-> "error", err |-> Err("ReadError", 0), pos |-> Len(bytes)]
    ELSE IF I32LE(bytes, 4) # TAG_HEADER_VERSION
    THEN [result |-> "error", err |-> Err("TagError::IncorrectVersion", I32LE(bytes, 4)), pos |-> 8]
    ELSE IF Len(bytes) < TagHeaderSize
    THEN [result |-> "error", err |-> Err("ReadError", 0), pos |-> Len(bytes)]
    ELSE [result |-> "ok", err |-> NoErr, pos |-> TagHeaderSize]

\* the fields of a parsed tag header that size the tables behind it
TagHeaderFields(bytes) ==
    [dependency_count |-> U32LE(bytes, 24),
     datablock_count |-> U32LE(bytes, 28),
     tagstruct_count |-> U32LE(bytes, 32),
     data_reference_count |-> U32LE(bytes, 36),
     string_table_size |-> U32LE(bytes, 44),
     zoneset_size |-> U32LE(bytes, 48),
     header_size |-> U32LE(bytes, 56),
     data_size |-> U32LE(bytes, 60),
     resource_size |-> U32LE(bytes, 64)]

\* bytes TagFile::read consumes behind the header
TagTablesSize(h, module_version) ==
    TagDependencySize * h.dependency_count
        + TagDataBlockSize * h.datablock_count
        + TagStructSize * h.tagstruct_count
        + TagDataReferenceSize * h.data_reference_count
        + h.zoneset_size
        + (IF module_version <= CampaignFlight THEN h.string_table_size ELSE 0)

\* TagFile::read on the bytes of a payload
TagFileRead(bytes, module_version) ==
    LET hr == TagHeaderRead(bytes) IN
    IF hr.result # "ok" THEN [result |-> hr.result, err |-> hr.err,
                              pos |-> hr.pos, info |-> <<>>]
    ELSE LET h == TagHeaderFields(bytes)
             end == TagHeaderSize + TagTablesSize(h, module_version)
         IN IF end > Len(bytes)
            THEN [result |-> "error", err |-> Err("ReadError", 0),
                  pos |-> Len(bytes), info |-> <<>>]
            ELSE [result |-> "ok", err |-> NoErr, pos |-> end,
                  info |-> <<[header |-> h]>>]

----------------------------------------------------------------------------
(* module/file.rs: payload assembly *)

\* the state of an assembly: the buffer, and the reads and native calls made
Assembly(data) ==
    [result |-> "ok", err |-> NoErr, data |-> data, reads |-> <<>>, kraken |-> <<>>]

Failed(acc, result, err) == [acc EXCEPT !.result = result, !.err = err]

\* reader.seek(SeekFrom::Start(pos)): the OS refuses a position past i64::MAX
SeekOk(pos) == pos <= I64Max

\* the assembly after one more read at pos
Logged(acc, pos, len) ==
    [acc EXCEPT !.reads = Append(acc.reads, [pos |-> pos, len |-> len])]

\* CopyBlock placing the bytes where they came from: at compressed_offset
CopyBlockAtSource(acc, block, rd) ==
    IF rd.result # "ok" THEN Failed(acc, "error", rd.err)
    ELSE [acc EXCEPT !.data = Splice(acc.data, block.compressed_offset, rd.bytes)]

\* read_uncompressed_block once read_exact has returned rd
CopyBlock(acc, block, rd) ==
    IF rd.result # "ok" THEN Failed(acc, "error", rd.err)
    ELSE [acc EXCEPT !.data = Splice(acc.data, block.decompressed_offset, rd.bytes)]

\* read_uncompressed_block, the reader at pos: compressed_size bytes are read
\* into data[decompressed_offset..][..compressed_size]
ReadUncompressedBlock(a, src, pos, block, acc) ==
    IF block.decompressed_offset + block.compressed_size > Len(acc.data)
    THEN Failed(acc, "panic", NoErr)
    ELSE CopyBlock(Logged(acc, pos, block.compressed_size), block,
                   ReadExact(a, src, pos, block.compressed_size))

\* read_compressed_block once the native call on bytes has returned dc: the
\* output is copied into data[decompressed_offset..][..decompressed_size]
CopyDecompressed(acc, block, bytes, dc) ==
    LET called == [acc EXCEPT
                      !.kraken = Append(acc.kraken,
                                        [src |-> bytes,
                                         size |-> block.decompressed_size,
                                         out |-> dc.out, call |-> dc])]
    IN IF dc.result # "ok" THEN Failed(called, "error", dc.err)
       ELSE IF block.decompressed_offset + block.decompressed_size > Len(acc.data)
               \/ Len(dc.out) # block.decompressed_size
       THEN Failed(called, "panic", NoErr)
       ELSE [called EXCEPT
                !.data = Splice(acc.data, block.decompressed_offset, dc.out)]

\* read_compressed_block once the compressed bytes have been read as rd
DecompressBlock(acc, block, rd, r) ==
    IF rd.result # "ok" THEN Failed(acc, "error", rd.err)
    ELSE CopyDecompressed(acc, block, rd.bytes,
                          Decompress(rd.bytes, Zeros(block.decompressed_size),
                                     block.decompressed_size, r))

\* read_compressed_block, the reader at pos, the native call returning r
ReadCompressedBlock(a, src, pos, block, acc, r) ==
    DecompressBlock(Logged(acc, pos, block.compressed_size), block,
                    ReadExact(a, src, pos, block.compressed_size), r)

\* one turn of the loop of read_multiple_blocks, the block's position being pos
ReadBlock(a, src, block, krets, acc, pos) ==
    IF pos.result # "ok" THEN Failed(acc, "panic", NoErr)
    ELSE IF ~SeekOk(pos.val) THEN Failed(acc, "error", Err("ReadError", 0))
    ELSE IF block.is_compressed
    THEN ReadCompressedBlock(a, src, pos.val, block, acc, krets[Len(acc.kraken) + 1])
    ELSE ReadUncompressedBlock(a, src, pos.val, block, acc)

RECURSIVE ReadBlocks(_, _, _, _, _, _, _)
\* the loop of read_multiple_blocks over blks from its k-th block on
ReadBlocks(a, src, initial_block_offset, blks, k, krets, acc) ==
    IF k > Len(blks) \/ acc.result # "ok" THEN acc
    ELSE ReadBlocks(a, src, initial_block_offset, blks, k + 1, krets,
                    ReadBlock(a, src, blks[k], krets, acc,
                              AddU64(initial_block_offset, blks[k].compressed_offset,
                                     a.checked)))

\* ModuleFileEntry::read_multiple_blocks
ReadMultipleBlocks(a, src, file, blks, file_offset, data, krets) ==
    IF file.block_index < 0
    THEN Failed(Assembly(data), "error", Err("NegativeBlockIndex", file.block_index))
    ELSE IF ~SeekOk(file_offset) THEN Failed(Assembly(data), "error", Err("ReadError", 0))
    ELSE IF file.block_index + file.block_count > Len(blks)
    THEN Failed(Assembly(data), "panic", NoErr)
    ELSE ReadBlocks(a, src, file_offset,
                    SubSeq(blks, file.block_index + 1,
                           file.block_index + file.block_count),
                    1, krets, Assembly(data))

\* read_single_block
\* read_single_block once the native call on bytes has returned dc
TakeDecompressed(acc, size, bytes, dc) ==
    [acc EXCEPT !.result = dc.result, !.err = dc.err, !.data = dc.out,
                !.kraken = <<[src |-> bytes, size |-> size, out |-> dc.out,
                              call |-> dc]>>]

\* read_single_block once read_exact has returned rd
TakeSingleBlock(acc, file, data, rd, krets) ==
    IF rd.result # "ok" THEN Failed(acc, "error", rd.err)
    ELSE IF file.total_compressed_size = file.total_uncompressed_size
    THEN [acc EXCEPT !.data = rd.bytes]
    ELSE TakeDecompressed(acc, file.total_uncompressed_size, rd.bytes,
                          Decompress(rd.bytes, data, file.total_uncompressed_size,
                                     krets[1]))

\* ModuleFileEntry::read_single_block
ReadSingleBlock(a, src, file, file_offset, data, krets) ==
    IF ~SeekOk(file_offset) THEN Failed(Assembly(data), "error", Err("ReadError", 0))
    ELSE TakeSingleBlock(Logged(Assembly(data), file_offset,
                                file.total_compressed_size),
                         file, data,
                         ReadExact(a, src, file_offset, file.total_compressed_size),
                         krets)

\* the source-relative offset of a payload
FileOffset(file, data_offset, uses_hd1, checked) ==
    IF uses_hd1 THEN SubU64(file.data_offset, data_offset, checked)
    ELSE AddU64(data_offset, file.data_offset, checked)

\* the module version a tag header is parsed under
TagVersionFor(file, module_version) ==
    IF file.tag_group = <<112, 115, 111, 100>> THEN Season3 ELSE module_version

\* what a call on an entry returns: the entry afterwards and what was done
Outcome(file, result, err, file_offset, acc) ==
    [file |-> file, result |-> result, err |-> err, file_offset |-> file_offset,
     reads |-> acc.reads, kraken |-> acc.kraken]

\* ModuleFileEntry::read_tag
\* TakeTag without the assignment of tag_info
TakeTagWithoutInfo(file, file_offset, acc, tf) ==
    IF tf.result # "ok"
    THEN Outcome([file EXCEPT !.data_stream[1].pos = tf.pos],
                 tf.result, tf.err, file_offset, acc)
    ELSE Outcome([file EXCEPT !.data_stream[1].pos = tf.pos, !.is_loaded = TRUE],
                 "ok", NoErr, file_offset, acc)

\* read_tag once TagFile::read has returned tf on the stream
TakeTag(file, file_offset, acc, tf) ==
    IF tf.result # "ok"
    THEN Outcome([file EXCEPT !.data_stream[1].pos = tf.pos],
                 tf.result, tf.err, file_offset, acc)
    ELSE Outcome([file EXCEPT !.data_stream[1].pos = tf.pos,
                              !.tag_info = tf.info, !.is_loaded = TRUE],
                 "ok", NoErr, file_offset, acc)

\* TakePayload marking the entry loaded before its tag header is parsed
TakePayloadLoaded(file, module_version, file_offset, acc) ==
    IF acc.result # "ok" THEN Outcome(file, acc.result, acc.err, file_offset, acc)
    ELSE TakeTag([file EXCEPT !.data_stream = <<[data |-> acc.data, pos |-> 0]>>,
                              !.is_loaded = TRUE],
                 file_offset, acc,
                 IF Contains(file.flags, RAW_FILE)
                 THEN [result |-> "ok", err |-> NoErr, pos |-> 0, info |-> <<>>]
                 ELSE TagFileRead(acc.data, TagVersionFor(file, module_version)))

\* read_tag once the payload has been assembled as acc
TakePayload(file, module_version, file_offset, acc) ==
    IF acc.result # "ok" THEN Outcome(file, acc.result, acc.err, file_offset, acc)
    ELSE IF Contains(file.flags, RAW_FILE)
    THEN Outcome([file EXCEPT !.data_stream = <<[data |-> acc.data, pos |-> 0]>>,
                              !.is_loaded = TRUE],
                 "ok", NoErr, file_offset, acc)
    ELSE TakeTag([file EXCEPT !.data_stream = <<[data |-> acc.data, pos |-> 0]>>],
                 file_offset, acc,
                 TagFileRead(acc.data, TagVersionFor(file, module_version)))

\* read_tag once the offset of the payload is known
ReadPayload(a, src, file, blks, module_version, krets, off) ==
    IF off.result # "ok" THEN Outcome(file, "panic", NoErr, -1, Assembly(<<>>))
    ELSE TakePayload(file, module_version, off.val,
                     IF file.block_count # 0
                     THEN ReadMultipleBlocks(a, src, file, blks, off.val,
                                             Zeros(file.total_uncompressed_size), krets)
                     ELSE ReadSingleBlock(a, src, file, off.val,
                                          Zeros(file.total_uncompressed_size), krets))

\* EntryReadTag without the test of is_loaded
EntryReadTagAgain(a, src, file, data_offset, blks, module_version, uses_hd1, krets) ==
    ReadPayload(a, src, file, blks, module_version, krets,
                FileOffset(file, data_offset, uses_hd1, a.checked))

\* ModuleFileEntry::read_tag
EntryReadTag(a, src, file, data_offset, blks, module_version, uses_hd1, krets) ==
    IF file.is_loaded THEN Outcome(file, "ok", NoErr, -1, Assembly(<<>>))
    ELSE ReadPayload(a, src, file, blks, module_version, krets,
                     FileOffset(file, data_offset, uses_hd1, a.checked))

\* the expected sizes of the native calls a read of the entry may make, in order
KrakenSizes(file, blks) ==
    IF file.block_count = 0
    THEN IF file.total_compressed_size = file.total_uncompressed_size
         THEN <<>> ELSE <<file.total_uncompressed_size>>
    ELSE IF file.block_index < 0 \/ file.block_index + file.block_count > Len(blks)
    THEN <<>>
    ELSE LET own == SubSeq(blks, file.block_index + 1,
                           file.block_index + file.block_count)
             comp == SelectSeq(own, LAMBDA b : b.is_compressed)
         IN [i \in 1..Len(comp) |-> comp[i].decompressed_size]

RECURSIVE KrakenReturnSeqs(_)
\* every sequence of native return values for calls of the given sizes
KrakenReturnSeqs(sizes) ==
    IF sizes = <<>> THEN {<<>>}
    ELSE {<<r>> \o t : r \in KrakenReturns(Head(sizes)),
                      t \in KrakenReturnSeqs(Tail(sizes))}

----------------------------------------------------------------------------
(* module/loader.rs: tag paths *)

RECURSIVE NatToString(_)
\* the decimal digits of n >= 0
NatToString(n) ==
    IF n < 10 THEN <<48 + n>> ELSE NatToString(n \div 10) \o <<48 + (n % 10)>>

\* Display of a signed integer
IntToString(n) == IF n < 0 THEN <<45>> \o NatToString(-n) ELSE NatToString(n)

\* "block"
BlockWord == <<98, 108, 111, 99, 107>>

\* "resource"
ResourceWord == <<114, 101, 115, 111, 117, 114, 99, 101>>

\* format!("{parent_name}[{child_index}:{word}]")
ChildPath(parent_name, child_index, word) ==
    parent_name \o <<91>> \o NatToString(child_index) \o <<58>> \o word \o <<93>>

\* TagPath leaving an entry without a tag id unnamed
TagPathOrEmpty(tag_group, tag_id) ==
    IF tag_id = -1 THEN <<>>
    ELSE tag_group \o <<47>> \o IntToString(tag_id) \o <<46>> \o tag_group

\* format!("{}/{}.{}", tag_group, tag_id, tag_group)
TagPath(tag_group, tag_id) ==
    tag_group \o <<47>> \o IntToString(tag_id) \o <<46>> \o tag_group

PathOk(path) == [result |-> "ok", err |-> NoErr, path |-> path]

PathFail(result, err) == [result |-> result, err |-> err, path |-> <<>>]

RECURSIVE CountLeading(_, _, _, _)
\* take_while(|item| !eq(item, file)).count() over files[slice[k..]]: the entries
\* of the slice in front of the first one that is the file itself
CountLeading(fs, slice, index, k) ==
    IF k > Len(slice) THEN [result |-> "ok", err |-> NoErr, val |-> 0]
    ELSE IF slice[k] >= Len(fs) THEN [result |-> "panic", err |-> NoErr, val |-> 0]
    ELSE IF slice[k] = index THEN [result |-> "ok", err |-> NoErr, val |-> 0]
    ELSE LET rest == CountLeading(fs, slice, index, k + 1)
         IN [rest EXCEPT !.val = IF rest.result = "ok" THEN rest.val + 1 ELSE 0]

\* ChildIndex counting positions from one
ChildIndexFromOne(fs, ris, parent, index) ==
    IF parent.resource_index < 0 \/ parent.resource_count < 0
    THEN [result |-> "error", err |-> Err("TryFromIntError", 0), val |-> 0]
    ELSE IF parent.resource_index + parent.resource_count > Len(ris)
    THEN [result |-> "panic", err |-> NoErr, val |-> 0]
    ELSE [CountLeading(fs,
                       SubSeq(ris, parent.resource_index + 1,
                              parent.resource_index + parent.resource_count),
                       index, 1) EXCEPT !.val = @ + 1]

\* child_index of files[index] among the resources of parent
ChildIndex(fs, ris, parent, index) ==
    IF parent.resource_index < 0 \/ parent.resource_count < 0
    THEN [result |-> "error", err |-> Err("TryFromIntError", 0), val |-> 0]
    ELSE IF parent.resource_index + parent.resource_count > Len(ris)
    THEN [result |-> "panic", err |-> NoErr, val |-> 0]
    ELSE CountLeading(fs,
                      SubSeq(ris, parent.resource_index + 1,
                             parent.resource_index + parent.resource_count),
                      index, 1)

\* TooDeep letting one more level through
TooDeepOffByOne(depth) == depth > MaxRecursionDepth + 1

\* depth > 3
TooDeep(depth) == depth > MaxRecursionDepth

\* the entries get_tag_path resolves through their parent
IsChild(file) == file.tag_id = -1 /\ file.parent_index # -1

RECURSIVE GetTagPath(_, _, _, _)
\* ModuleFile::get_tag_path(index, depth)
GetTagPath(fs, ris, index, depth) ==
    IF TooDeep(depth) THEN PathFail("error", Err("RecursionDepth", 0))
    ELSE
    LET file == fs[index + 1] IN
    IF ~IsChild(file) THEN PathOk(TagPath(file.tag_group, file.tag_id))
    ELSE IF file.parent_index < 0 THEN PathFail("error", Err("TryFromIntError", 0))
    ELSE IF file.parent_index >= Len(fs) THEN PathFail("panic", NoErr)
    ELSE
    LET parent == fs[file.parent_index + 1]
        ci == ChildIndex(fs, ris, parent, index)
    IN
    IF ci.result # "ok" THEN PathFail(ci.result, ci.err)
    ELSE
    LET first == IF parent.tag_name = <<>>
                 THEN GetTagPath(fs, ris, file.parent_index, depth + 1)
                 ELSE PathOk(<<>>)
    IN
    IF first.result # "ok" THEN first
    ELSE IF parent.tag_id = -1
    THEN LET second == GetTagPath(fs, ris, file.parent_index, depth + 1)
         IN IF second.result # "ok" THEN second
            ELSE PathOk(ChildPath(second.path, ci.val, BlockWord))
    ELSE PathOk(ChildPath(first.path, ci.val, ResourceWord))

RECURSIVE CollectPaths(_, _, _)
\* (0..files.len()).map(|i| get_tag_path(i, 0)).collect::<Result<Vec<_>>>()
CollectPaths(fs, ris, i) ==
    IF i >= Len(fs) THEN [result |-> "ok", err |-> NoErr, paths |-> <<>>]
    ELSE LET p == GetTagPath(fs, ris, i, 0) IN
         IF p.result # "ok" THEN [result |-> p.result, err |-> p.err, paths |-> <<>>]
         ELSE LET rest == CollectPaths(fs, ris, i + 1) IN
              IF rest.result # "ok" THEN rest
              ELSE [rest EXCEPT !.paths = <<p.path>> \o rest.paths]

----------------------------------------------------------------------------
(* common/extensions.rs *)

\* String::from_utf8 accepts the bytes (the archives drawn hold no multi-byte
\* sequence: a byte of 128 or more is an invalid lone byte)
Utf8Valid(bytes) == \A i \in 1..Len(bytes) : bytes[i] < 128

\* ReadFixedString without the empty string for bytes of 0xFF
ReadFixedStringUtf8(buffer) ==
    IF Utf8Valid(buffer) THEN [result |-> "ok", err |-> NoErr, str |-> buffer]
    ELSE [result |-> "error", err |-> Err("Utf8ReadingError", 0), str |-> <<>>]

\* BufReaderExt::read_fixed_string on the bytes read: buffer == [0xFF; 4]
\* compares the buffer with an array of four bytes
ReadFixedString(buffer) ==
    IF buffer = <<255, 255, 255, 255>> THEN [result |-> "ok", err |-> NoErr, str |-> <<>>]
    ELSE IF Utf8Valid(buffer) THEN [result |-> "ok", err |-> NoErr, str |-> buffer]
    ELSE [result |-> "error", err |-> Err("Utf8ReadingError", 0), str |-> <<>>]

\* BufReaderExt::read_null_terminated_string, the reader at off in image, the
\* bytes from there to the end of the file
ReadNullTerminatedString(image, off) ==
    LET nuls == {i \in (off + 1)..Len(image) : image[i] = 0}
        last == IF nuls = {} THEN Len(image)
                ELSE CHOOSE i \in nuls : \A j \in nuls : i <= j
        buffer == IF off >= Len(image) THEN <<>> ELSE SubSeq(image, off + 1, last - 1)
    IN IF Utf8Valid(buffer) THEN [result |-> "ok", err |-> NoErr, str |-> buffer]
       ELSE [result |-> "error", err |-> Err("Utf8ReadingError", 0), str |-> <<>>]

Reverse(s) == [i \in 1..Len(s) |-> s[Len(s) + 1 - i]]

EncodeU32LE(v) ==
    <<v % 256, (v \div 256) % 256, (v \div 65536) % 256, (v \div 16777216) % 256>>

RECURSIVE Flatten(_)
Flatten(ss) == IF ss = <<>> THEN <<>> ELSE Head(ss) \o Flatten(Tail(ss))

\* the bytes of the archive from its string table to the first padding byte
StringsImage(a) ==
    a.strings
        \o Flatten([i \in 1..Len(a.resource_indices) |->
                       EncodeU32LE(a.resource_indices[i])])
        \o Flatten([i \in 1..Len(a.blocks) |->
                       EncodeU32LE(a.blocks[i].compressed_offset)
                           \o EncodeU32LE(a.blocks[i].compressed_size)
                           \o EncodeU32LE(a.blocks[i].decompressed_offset)
                           \o EncodeU32LE(a.blocks[i].decompressed_size)
                           \o EncodeU32LE(a.blocks[i].is_compressed)])
        \o <<0>>

----------------------------------------------------------------------------
(* module/file.rs, module/block.rs, module/header.rs: parsing the tables *)

\* bits of a raw data offset that hold the offset: all but the top 16
OffsetBits == U64Bits - 16

\* EntryRead keeping only the flag bits DataOffsetType names
EntryReadNamedFlags(e, is_flight1) ==
    LET group == ReadFixedString(e.tag_group) IN
    [result |-> group.result, err |-> group.err,
     file |->
        [flags |-> e.flags % 8,
         block_count |-> e.block_count,
         block_index |-> e.block_index,
         resource_index |-> e.resource_index,
         tag_group |-> Reverse(group.str),
         data_offset |-> e.data_offset_raw % Pow2(OffsetBits),
         data_offset_flags |-> (e.data_offset_raw \div Pow2(OffsetBits)) % 4,
         total_compressed_size |-> e.total_compressed_size,
         total_uncompressed_size |-> e.total_uncompressed_size,
         tag_id |-> e.tag_id,
         uncompressed_header_size |-> e.uncompressed_header_size,
         name_offset |-> e.name_offset,
         parent_index |-> e.parent_index,
         resource_count |-> IF is_flight1 THEN e.resource_count % 65536
                            ELSE e.resource_count,
         data_stream |-> <<>>,
         tag_info |-> <<>>,
         is_loaded |-> FALSE,
         tag_name |-> <<>>]]

\* ModuleFileEntry::read on one on-disk entry
EntryRead(e, is_flight1) ==
    LET group == ReadFixedString(e.tag_group) IN
    [result |-> group.result, err |-> group.err,
     file |->
        [flags |-> e.flags % 8,
         block_count |-> e.block_count,
         block_index |-> e.block_index,
         resource_index |-> e.resource_index,
         tag_group |-> Reverse(group.str),
         data_offset |-> e.data_offset_raw % Pow2(OffsetBits),
         data_offset_flags |-> e.data_offset_raw \div Pow2(OffsetBits),
         total_compressed_size |-> e.total_compressed_size,
         total_uncompressed_size |-> e.total_uncompressed_size,
         tag_id |-> e.tag_id,
         uncompressed_header_size |-> e.uncompressed_header_size,
         name_offset |-> e.name_offset,
         parent_index |-> e.parent_index,
         resource_count |-> IF is_flight1 THEN e.resource_count % 65536
                            ELSE e.resource_count,
         data_stream |-> <<>>,
         tag_info |-> <<>>,
         is_loaded |-> FALSE,
         tag_name |-> <<>>]]

\* ModuleBlockEntry::read on one on-disk block
BlockRead(b) ==
    [result |-> IF b.is_compressed \in {0, 1} THEN "ok" ELSE "error",
     err |-> IF b.is_compressed \in {0, 1} THEN NoErr
             ELSE Err("IncorrectCompressedValue", 0),
     block |-> [compressed_offset |-> b.compressed_offset,
                compressed_size |-> b.compressed_size,
                decompressed_offset |-> b.decompressed_offset,
                decompressed_size |-> b.decompressed_size,
                is_compressed |-> b.is_compressed # 0]]

\* ModuleHeader::read
\* HeaderRead testing the version in front of the magic
HeaderReadVersionFirst(a) ==
    IF a.version \notin ModuleVersions
    THEN [result |-> "error", err |-> Err("ModuleError::IncorrectVersion", a.version),
          pos |-> 8]
    ELSE IF a.magic # MODULE_HEADER_MAGIC
    THEN [result |-> "error", err |-> Err("ModuleError::IncorrectMagic", a.magic),
          pos |-> 8]
    ELSE [result |-> "ok", err |-> NoErr, pos |-> HeaderSize(a.version)]

\* ModuleHeader::read; pos is where it leaves the reader
HeaderRead(a) ==
    IF a.magic # MODULE_HEADER_MAGIC
    THEN [result |-> "error", err |-> Err("ModuleError::IncorrectMagic", a.magic),
          pos |-> 4]
    ELSE IF a.version \notin ModuleVersions
    THEN [result |-> "error", err |-> Err("ModuleError::IncorrectVersion", a.version),
          pos |-> 8]
    ELSE [result |-> "ok", err |-> NoErr, pos |-> HeaderSize(a.version)]

\* ModuleFile::default()
DefaultModule ==
    [header |-> [version |-> Season3, hd1_delta |-> 0],
     files |-> <<>>, resource_indices |-> <<>>, blocks |-> <<>>,
     file_data_offset |-> 0, hd1_file |-> FALSE]

OpenFail(result, err) == [result |-> result, err |-> err, module |-> DefaultModule]

\* the first entry of rs that is not ok, or 0
FirstFailure(rs) ==
    LET bad == {i \in 1..Len(rs) : rs[i].result # "ok"} IN
    IF bad = {} THEN 0 ELSE CHOOSE i \in bad : \A j \in bad : i <= j

\* the names of the files of a module up to CampaignFlight, from the string table
StringNames(a, fs) ==
    [i \in 1..Len(fs) |-> ReadNullTerminatedString(StringsImage(a), fs[i].name_offset)]

\* the names of the files: the string table up to CampaignFlight, tag paths after
ResolveNames(a, fs) ==
    IF a.version <= CampaignFlight
    THEN LET names == StringNames(a, fs)
             bad == FirstFailure(names)
         IN IF bad # 0
            THEN [result |-> "error", err |-> names[bad].err, paths |-> <<>>]
            ELSE [result |-> "ok", err |-> NoErr,
                  paths |-> [i \in 1..Len(fs) |-> names[i].str]]
    ELSE CollectPaths(fs, a.resource_indices, 0)

\* ModuleFile::from_path
\* ModuleFile::read once the names are resolved: the blocks are read and the
\* data offset is aligned
ReadBlockTable(a, fs, names, blks) ==
    IF FirstFailure(blks) # 0 THEN OpenFail("error", blks[FirstFailure(blks)].err)
    ELSE
    [result |-> "ok", err |-> NoErr,
     module |->
        [header |-> [version |-> a.version, hd1_delta |-> a.hd1_delta],
         files |-> [i \in 1..Len(fs) |-> [fs[i] EXCEPT !.tag_name = names.paths[i]]],
         resource_indices |-> a.resource_indices,
         blocks |-> [i \in 1..Len(blks) |-> blks[i].block],
         file_data_offset |-> AlignedDataOffset(TablesEnd(a)),
         hd1_file |-> a.hd1_delta # 0 /\ a.hd1_exists]]

\* ModuleFile::read once the file entries are read: the names are assigned
AssignNames(a, fs, names) ==
    IF names.result # "ok" THEN OpenFail(names.result, names.err)
    ELSE ReadBlockTable(a, fs, names,
                        [i \in 1..Len(a.blocks) |-> BlockRead(a.blocks[i])])

\* ModuleFile::read once the header is read: the file entries are read
ReadFileTable(a, entries) ==
    IF FirstFailure(entries) # 0
    THEN OpenFail("error", entries[FirstFailure(entries)].err)
    ELSE AssignNames(a, [i \in 1..Len(entries) |-> entries[i].file],
                     ResolveNames(a, [i \in 1..Len(entries) |-> entries[i].file]))

\* ModuleFile::from_path
OpenModule(a) ==
    IF HeaderRead(a).result # "ok"
    THEN OpenFail(HeaderRead(a).result, HeaderRead(a).err)
    ELSE ReadFileTable(a, [i \in 1..Len(a.entries) |->
                              EntryRead(a.entries[i], a.version = Flight1)])

----------------------------------------------------------------------------
(* module/loader.rs: reading a tag *)

Absent(file) ==
    [file |-> file, result |-> "absent", err |-> NoErr, file_offset |-> -1,
     reads |-> <<>>, kraken |-> <<>>]

\* the base offset handed to an entry read from the HD1 archive
Hd1BaseOffset(hdr, checked) ==
    IF hdr.version <= CampaignFlight
    THEN AddU64(hdr.hd1_delta, hdr.hd1_delta, checked)
    ELSE [result |-> "ok", val |-> hdr.hd1_delta]

\* read_tag returns Ok(None) without reading
IsAbsent(file, hd1) ==
    \/ Contains(file.data_offset_flags, DEBUG)
    \/ Contains(file.data_offset_flags, USE_HD1) /\ ~hd1

\* ModuleFile::read_tag(index) on an open module
ModuleReadTag(a, hdr, fs, blks, fdo, hd1, index, krets) ==
    IF IsAbsent(fs[index + 1], hd1) THEN Absent(fs[index + 1])
    ELSE IF Hd1BaseOffset(hdr, a.checked).result # "ok"
            /\ Contains(fs[index + 1].data_offset_flags, USE_HD1)
    THEN Outcome(fs[index + 1], "panic", NoErr, -1, Assembly(<<>>))
    ELSE EntryReadTag(a,
                      IF Contains(fs[index + 1].data_offset_flags, USE_HD1)
                      THEN "hd1" ELSE "primary",
                      fs[index + 1],
                      IF Contains(fs[index + 1].data_offset_flags, USE_HD1)
                      THEN Hd1BaseOffset(hdr, a.checked).val ELSE fdo,
                      blks, hdr.version,
                      Contains(fs[index + 1].data_offset_flags, USE_HD1), krets)

\* Position taking the highest index that matches
PositionLast(fs, global_id) ==
    LET hits == {i \in 1..Len(fs) : fs[i].tag_id = global_id} IN
    IF hits = {} THEN -1 ELSE (CHOOSE i \in hits : \A j \in hits : i >= j) - 1

\* files.iter().position(|file| file.tag_id == global_id), or -1
Position(fs, global_id) ==
    LET hits == {i \in 1..Len(fs) : fs[i].tag_id = global_id} IN
    IF hits = {} THEN -1 ELSE (CHOOSE i \in hits : \A j \in hits : i <= j) - 1

----------------------------------------------------------------------------
(* The archives the model is run on *)

\* largest total size of a payload assembled from small blocks
MaxSize == 2

\* largest hd1_delta of a header
MaxDelta == 1

\* largest data offset of an entry read through the HD1 archive
MaxOffset == 2

\* files of an archive whose parent links are drawn freely
MaxPathFiles == 2

\* files of an archive whose entries form one parent chain
MaxChain == 5

\* "bitm" as stored on disk (reversed)
BitmOnDisk == <<109, 116, 105, 98>>

\* "psod" as stored on disk (reversed)
PsodOnDisk == <<100, 111, 115, 112>>

BaseEntry ==
    [flags |-> 0, block_count |-> 0, block_index |-> 0, resource_index |-> 0,
     tag_group |-> BitmOnDisk, data_offset_raw |-> 0,
     total_compressed_size |-> 0, total_uncompressed_size |-> 0, tag_id |-> 7,
     uncompressed_header_size |-> 0, name_offset |-> 0, parent_index |-> -1,
     resource_count |-> 0]

BaseArchive ==
    [checked |-> TRUE, magic |-> MODULE_HEADER_MAGIC, version |-> Season3,
     hd1_delta |-> 0, hd1_exists |-> FALSE, entries |-> <<BaseEntry>>,
     strings |-> <<97, 0>>, resource_indices |-> <<>>, blocks |-> <<>>,
     data |-> <<10, 11, 12>>, hd1_data |-> <<20, 21, 22>>]

DiskBlock(co, cs, do, ds, c) ==
    [compressed_offset |-> co, compressed_size |-> cs, decompressed_offset |-> do,
     decompressed_size |-> ds, is_compressed |-> c]

RawOffset(flags, offset) == flags * Pow2(OffsetBits) + offset

\* entries behind the flags of their data offset, with and without an HD1 archive
Hd1Archives ==
    {[BaseArchive EXCEPT
         !.checked = ck, !.version = v, !.hd1_delta = d, !.hd1_exists = ex,
         !.blocks = <<DiskBlock(0, 1, 0, 1, 0)>>,
         !.entries = <<[BaseEntry EXCEPT
                           !.flags = RAW_FILE,
                           !.total_compressed_size = 1,
                           !.total_uncompressed_size = 1,
                           !.block_count = bb[1], !.block_index = bb[2],
                           !.data_offset_raw = RawOffset(fl, off)]>>] :
        ck \in BOOLEAN, v \in {CampaignFlight, Season3}, d \in 0..MaxDelta,
        ex \in BOOLEAN, fl \in {0, USE_HD1, DEBUG, USE_HD1 + DEBUG}, off \in 0..MaxOffset, bb \in {<<0, 0>>, <<1, -1>>}}

\* entries stored as one block
SingleBlockArchives ==
    {[BaseArchive EXCEPT
         !.entries = <<[BaseEntry EXCEPT
                           !.flags = fl,
                           !.total_compressed_size = cs,
                           !.total_uncompressed_size = us,
                           !.data_offset_raw = off]>>] :
        fl \in {RAW_FILE, RAW_FILE + 1}, cs \in 0..MaxSize, us \in 0..MaxSize, off \in 0..1}

BlockShapes ==
    {DiskBlock(0, 1, 0, 1, 0), DiskBlock(2, 1, 1, 1, 0),
     DiskBlock(1, 2, 0, 1, 0), DiskBlock(0, 1, 0, 2, 0),
     DiskBlock(0, 2, 1, 1, 1), DiskBlock(1, 1, 0, 1, 1), DiskBlock(0, 1, 0, 2, 1)}

\* block tables of two blocks
BlockTables == {<<b1, b2>> : b1 \in BlockShapes, b2 \in BlockShapes}

\* entries assembled from the blocks of a block table
BlockArchives ==
    {[BaseArchive EXCEPT
         !.blocks = bt, !.data = <<10, 20, 30, 40>>,
         !.entries = <<[BaseEntry EXCEPT
                           !.flags = RAW_FILE + 2,
                           !.total_compressed_size = us,
                           !.total_uncompressed_size = us,
                           !.block_count = bb[1], !.block_index = bb[2],
                           !.data_offset_raw = 1]>>] :
        bt \in BlockTables, us \in 1..MaxSize,
        bb \in {<<1, -1>>, <<1, 0>>, <<1, 1>>, <<2, 0>>, <<2, 1>>}}

\* a tag header without tables, followed by string_table_size bytes of strings
TagHeaderBytes(version, string_table_size) ==
    <<117, 99, 115, 104, version, 0, 0, 0>> \o Zeros(36)
        \o <<string_table_size, 0, 0, 0>> \o Zeros(32)

TagData ==
    TagHeaderBytes(27, 0) \o <<117, 99, 115, 104, 26, 0, 0, 0>>
        \o TagHeaderBytes(27, 1) \o <<65>>

\* entries whose payload is, or is not, a tag
TagArchives ==
    {[BaseArchive EXCEPT
         !.version = v, !.data = TagData,
         !.entries = <<[BaseEntry EXCEPT
                           !.flags = fl, !.tag_group = g,
                           !.total_compressed_size = sz,
                           !.total_uncompressed_size = sz,
                           !.data_offset_raw = off]>>] :
        v \in {CampaignFlight, Season3}, fl \in {0, RAW_FILE},
        g \in {BitmOnDisk, PsodOnDisk}, sz \in {4, 8, 80, 81}, off \in {0, 80, 84, 88}}

\* archives that do not open
BrokenArchives ==
    {[BaseArchive EXCEPT !.magic = 27],
     [BaseArchive EXCEPT !.magic = 27, !.version = 50],
     [BaseArchive EXCEPT !.version = 50],
     [BaseArchive EXCEPT !.blocks = <<DiskBlock(0, 1, 0, 1, 2)>>],
     [BaseArchive EXCEPT !.entries = <<[BaseEntry EXCEPT !.tag_group = <<200, 0, 0, 0>>]>>],
     [BaseArchive EXCEPT !.version = Release, !.strings = <<200, 0>>],
     [BaseArchive EXCEPT !.version = Flight1,
                         !.entries[1].data_offset_raw = RawOffset(4 + DEBUG, 1)]}

\* two entries that may share a tag id
TwoFileArchives ==
    {[BaseArchive EXCEPT
         !.entries = [i \in 1..2 |->
                        [BaseEntry EXCEPT
                            !.flags = RAW_FILE, !.tag_id = ids[i],
                            !.total_compressed_size = 1,
                            !.total_uncompressed_size = 1,
                            !.data_offset_raw = RawOffset(fls[i], i)]]] :
        ids \in [1..2 -> {7, 9}], fls \in [1..2 -> {0, DEBUG}]}

\* a module whose block table ends on a 4 KiB boundary
AlignedArchive ==
    [BaseArchive EXCEPT
        !.strings = <<97, 0>> \o Zeros(4096 - StringsOffset(BaseArchive) - 2),
        !.entries = <<[BaseEntry EXCEPT !.flags = RAW_FILE,
                                        !.total_compressed_size = 1,
                                        !.total_uncompressed_size = 1]>>]

\* the archives read: the families above, and entries whose raw data offset
\* sets flag bits DataOffsetType does not name, up to all sixteen
ReadArchives ==
    Hd1Archives \cup SingleBlockArchives \cup BlockArchives \cup TagArchives
        \cup BrokenArchives \cup TwoFileArchives \cup {AlignedArchive}
        \cup {[BaseArchive EXCEPT
                  !.entries[1].flags = RAW_FILE,
                  !.entries[1].data_offset_raw = RawOffset(fl, off)] :
                 fl \in {4, 4 + USE_HD1, 65535}, off \in {0, 1, Pow2(OffsetBits) - 1}}

\* resource index table of the archives whose parent links are drawn
PathResourceIndices == <<1, 0>>

PathEntries(n) ==
    {[BaseEntry EXCEPT
         !.tag_id = id, !.parent_index = pi,
         !.resource_index = rr[1], !.resource_count = rr[2]] :
        id \in {-1, 7}, pi \in (-1)..(n - 1), rr \in {<<-1, 0>>, <<0, 2>>}}

FreePathArchives ==
    UNION {{[BaseArchive EXCEPT
                !.entries = es, !.resource_indices = PathResourceIndices] :
              es \in [1..n -> PathEntries(n)]} : n \in 1..MaxPathFiles}

\* entry k of a chain of n entries: a child of entry k + 1, the last one a tag,
\* an entry without a parent, or a child of entry 0
ChainEntry(n, k, top, rr) ==
    [BaseEntry EXCEPT
        !.tag_id = IF k = n - 1 /\ top = "tag" THEN 12 ELSE -1,
        !.parent_index = IF k < n - 1 THEN k + 1
                         ELSE IF top = "cycle" THEN 0 ELSE -1,
        !.resource_index = rr[1], !.resource_count = rr[2]]

ChainArchives ==
    {[BaseArchive EXCEPT
         !.resource_indices = PathResourceIndices,
         !.entries = [i \in 1..n |-> ChainEntry(n, i - 1, top, rr)]] :
        n \in 1..MaxChain, top \in {"tag", "orphan", "cycle"},
        rr \in {<<0, 0>>, <<0, 2>>, <<-1, 0>>}}

\* A a child of B, B a child of C, C the tag 0xABCD of group "bitm" owning
\* resource_indices[5..7] = [A, B]
ScenarioArchive ==
    [BaseArchive EXCEPT
        !.resource_indices = <<2, 2, 2, 2, 2, 0, 1>>,
        !.entries =
            <<[BaseEntry EXCEPT !.tag_id = -1, !.parent_index = 1],
              [BaseEntry EXCEPT !.tag_id = -1, !.parent_index = 2],
              [BaseEntry EXCEPT !.tag_id = 43981, !.resource_index = 5,
                                !.resource_count = 2]>>]

\* the same with a parent index or a resource range that leaves its table
UnsoundArchives ==
    {[ScenarioArchive EXCEPT !.entries[1].parent_index = -2],
     [ScenarioArchive EXCEPT !.entries[1].parent_index = 3],
     [ScenarioArchive EXCEPT !.entries[2].resource_index = 6,
                             !.entries[2].resource_count = 2],
     [ScenarioArchive EXCEPT !.resource_indices = <<2, 2, 2, 2, 2, 9, 1>>]}

PathArchives ==
    FreePathArchives \cup ChainArchives \cup {ScenarioArchive} \cup UnsoundArchives

----------------------------------------------------------------------------
(* The state machine *)

OpRecord(name, index, result, err, out, before) ==
    [name |-> name, index |-> index, result |-> result, err |-> err,
     file_offset |-> out.file_offset, reads |-> out.reads, kraken |-> out.kraken,
     before |-> before]

NoOutcome == [file_offset |-> -1, reads |-> <<>>, kraken |-> <<>>]

\* nothing given or handed back
NoReturn == [kind |-> "none"]

Closed ==
    /\ phase = "closed"
    /\ header = DefaultModule.header
    /\ files = DefaultModule.files
    /\ resource_indices = DefaultModule.resource_indices
    /\ blocks = DefaultModule.blocks
    /\ file_data_offset = DefaultModule.file_data_offset
    /\ hd1_file = DefaultModule.hd1_file
    /\ op = OpRecord("none", -1, "none", NoErr, NoOutcome, <<>>)
    /\ returned = NoReturn

Init == archive \in ReadArchives /\ Closed

InitPath == archive \in PathArchives /\ Closed

\* ModuleFile::from_path(archive)
\* the module a caller holds after from_path has returned r
Opened(r) ==
    /\ phase' = CASE r.result = "ok" -> "open"
                  [] r.result = "error" -> "failed"
                  [] OTHER -> "panicked"
    /\ header' = r.module.header
    /\ files' = r.module.files
    /\ resource_indices' = r.module.resource_indices
    /\ blocks' = r.module.blocks
    /\ file_data_offset' = r.module.file_data_offset
    /\ hd1_file' = r.module.hd1_file
    /\ op' = OpRecord("open", -1, r.result, r.err, NoOutcome, <<>>)
    /\ returned' = [kind |-> "open", header_end |-> HeaderRead(archive).pos]

Open ==
    /\ phase = "closed"
    /\ Opened(OpenModule(archive))
    /\ UNCHANGED archive

\* the module after read_tag(index) has come back with out
Returned(name, index, out) ==
    /\ files' = [files EXCEPT ![index + 1] = out.file]
    /\ phase' = IF out.result = "panic" THEN "panicked" ELSE "open"
    /\ op' = OpRecord(name, index,
                      IF out.result = "ok" THEN "entry" ELSE out.result,
                      out.err, out, <<files[index + 1]>>)

\* read_tag(index) called as name; an index past the table panics
DoReadTag(name, index) ==
    IF index >= Len(files)
    THEN /\ phase' = "panicked"
         /\ op' = OpRecord(name, index, "panic", NoErr, NoOutcome, <<>>)
         /\ UNCHANGED files
    ELSE \E krets \in KrakenReturnSeqs(KrakenSizes(files[index + 1], blocks)) :
            Returned(name, index,
                     ModuleReadTag(archive, header, files, blocks, file_data_offset,
                                   hd1_file, index, krets))

\* ModuleFile::read_tag(index)
ReadTag ==
    /\ phase = "open"
    /\ \E index \in 0..Len(files) : DoReadTag("read_tag", index)
    /\ returned' = NoReturn
    /\ UNCHANGED <<archive, header, resource_indices, blocks, file_data_offset,
                   hd1_file>>

\* tag ids a caller asks for: those of the files and one that no file has
TagIdInputs == {files[i].tag_id : i \in 1..Len(files)} \cup {1}

\* ModuleFile::read_tag_from_id(global_id)
ReadTagFromId ==
    /\ phase = "open"
    /\ \E global_id \in TagIdInputs :
          /\ returned' = [kind |-> "read_tag_from_id", global_id |-> global_id]
          /\ IF Position(files, global_id) = -1
             THEN /\ op' = OpRecord("read_tag_from_id", -1, "absent", NoErr,
                                    NoOutcome, <<>>)
                  /\ UNCHANGED <<phase, files>>
             ELSE DoReadTag("read_tag_from_id", Position(files, global_id))
    /\ UNCHANGED <<archive, header, resource_indices, blocks, file_data_offset,
                   hd1_file>>

Next == Open \/ ReadTag \/ ReadTagFromId

Spec == Init /\ [][Next]_vars

\* ModuleFile::get_tag_path(index, 0) on the module as open left it
CallGetTagPath ==
    /\ phase = "open"
    /\ \E index \in 0..(Len(files) - 1) :
          /\ op' = OpRecord("get_tag_path", index,
                            GetTagPath(files, resource_indices, index, 0).result,
                            GetTagPath(files, resource_indices, index, 0).err,
                            NoOutcome, <<>>)
          /\ returned' = [kind |-> "get_tag_path",
                          path |-> GetTagPath(files, resource_indices, index, 0).path]
    /\ UNCHANGED <<archive, phase, header, files, resource_indices, blocks,
                   file_data_offset, hd1_file>>

NextPath == Open \/ CallGetTagPath

SpecPath == InitPath /\ [][NextPath]_vars

\* module.files[index].data_stream = None: the caller drops the payload of an
\* entry it has read
DropPayload ==
    /\ phase = "open"
    /\ \E index \in 0..(Len(files) - 1) :
          /\ files[index + 1].data_stream # <<>>
          /\ files' = [files EXCEPT ![index + 1].data_stream = <<>>]
          /\ op' = OpRecord("release", index, "ok", NoErr, NoOutcome,
                            <<files[index + 1]>>)
    /\ returned' = NoReturn
    /\ UNCHANGED <<archive, phase, header, resource_indices, blocks,
                   file_data_offset, hd1_file>>

NextRelease == Next \/ DropPayload

SpecRelease == Init /\ [][NextRelease]_vars

----------------------------------------------------------------------------
(* What the claims speak of *)

\* the last call was read_tag or read_tag_from_id and reached an entry
ReadCall == op.name \in {"read_tag", "read_tag_from_id"} /\ op.before # <<>>

\* the entry as the last call found it, and as it left it
Before == op.before[1]

After == files[op.index + 1]

HasFlag(bits, flag) == (bits \div flag) % 2 = 1

\* the entry is flagged DEBUG, or USE_HD1 while no HD1 archive is open
AbsentCase(file) ==
    \/ HasFlag(file.data_offset_flags, DEBUG)
    \/ HasFlag(file.data_offset_flags, USE_HD1) /\ ~hd1_file

Unloaded(file) == file.data_stream = <<>> /\ file.tag_info = <<>> /\ ~file.is_loaded

\* the last call computed an offset and positioned the reader there
Assembled == ReadCall /\ op.file_offset # -1 /\ op.file_offset <= I64Max

\* the archive the entry is read from, and where its first byte is in the file
SourceData(file) ==
    IF HasFlag(file.data_offset_flags, USE_HD1) THEN archive.hd1_data ELSE archive.data

SourceStart(file) ==
    IF HasFlag(file.data_offset_flags, USE_HD1) THEN 0 ELSE file_data_offset

\* the n bytes at pos of the entry's archive are there
InSource(file, pos, n) ==
    pos >= SourceStart(file) /\ pos - SourceStart(file) + n <= Len(SourceData(file))

SourceBytes(file, pos, n) ==
    SubSeq(SourceData(file), pos - SourceStart(file) + 1, pos - SourceStart(file) + n)

Payload(file) == file.data_stream[1].data

\* C1, as claimed: read_tag returns absent exactly for an entry flagged DEBUG, or
\* flagged USE_HD1 while no HD1 archive is open, and leaves that entry without
\* payload, without tag_info and not loaded; for every other entry it returns
\* the entry or an error
C1_AbsentExactly ==
    (op.name = "read_tag" /\ op.before # <<>>) =>
        /\ (op.result = "absent") <=> AbsentCase(Before)
        /\ op.result = "absent" => After = Before /\ Unloaded(After)
        /\ op.result # "absent" => op.result \in {"entry", "error"}

\* C2: whenever read_tag or read_tag_from_id returns an entry, its data_stream is
\* populated, is_loaded is true, and tag_info is populated unless it is RAW_FILE
C2_EntryLoaded ==
    (ReadCall /\ op.result = "entry") =>
        /\ After.data_stream # <<>>
        /\ After.is_loaded
        /\ ~HasFlag(After.flags, RAW_FILE) => After.tag_info # <<>>

\* an entry that is a tag comes back parsed
C2_Witness ==
    /\ ReadCall /\ op.result = "entry" /\ op.file_offset # -1
    /\ ~HasFlag(After.flags, RAW_FILE)
    /\ After.tag_info # <<>> /\ After.is_loaded

\* C3, as claimed: after a successful read_tag the payload is exactly
\* total_uncompressed_size bytes long, whatever count the decompressor reported
C3_PayloadLength ==
    (ReadCall /\ op.result = "entry") =>
        Len(Payload(After)) = After.total_uncompressed_size

\* the last call set out to assemble the payload of an entry: the entry was
\* neither absent nor loaded already
Reading == ReadCall /\ ~AbsentCase(Before) /\ ~Before.is_loaded

\* exactly total_compressed_size bytes are read at the source-relative offset;
\* with equal sizes the payload is those bytes and the decompressor is not
\* called, otherwise it is called exactly once, on those bytes, for
\* total_uncompressed_size bytes
SingleBlockRead ==
    /\ op.reads = <<[pos |-> op.file_offset, len |-> Before.total_compressed_size]>>
    /\ IF ~InSource(Before, op.file_offset, Before.total_compressed_size)
       THEN op.kraken = <<>> /\ op.result = "error"
       ELSE IF Before.total_compressed_size = Before.total_uncompressed_size
       THEN /\ op.kraken = <<>>
            /\ op.result = "entry" =>
                  Payload(After) = SourceBytes(Before, op.file_offset,
                                               Before.total_compressed_size)
       ELSE /\ Len(op.kraken) = 1
            /\ op.kraken[1].src = SourceBytes(Before, op.file_offset,
                                              Before.total_compressed_size)
            /\ op.kraken[1].size = Before.total_uncompressed_size

\* C4, as claimed: for block_count = 0 read_tag reads exactly
\* total_compressed_size bytes at the source-relative offset; with equal sizes
\* the payload is those bytes and the decompressor is not called, otherwise it
\* is called exactly once, on those bytes, for total_uncompressed_size bytes,
\* whatever the COMPRESSED flag says
C4_SingleBlock == (Reading /\ Before.block_count = 0) => SingleBlockRead

\* C4 for the calls that computed an offset and positioned the reader there
C4_SingleBlockPositioned == (Assembled /\ Before.block_count = 0) => SingleBlockRead

\* the calls C4 fails for are those whose HD1 offset went below zero
C4_FailsOnlyBelowZero ==
    (Reading /\ Before.block_count = 0 /\ ~SingleBlockRead) =>
        /\ HasFlag(Before.data_offset_flags, USE_HD1)
        /\ Before.data_offset < (IF header.version <= CampaignFlight
                                 THEN 2 * header.hd1_delta ELSE header.hd1_delta)

\* an entry flagged uncompressed is decompressed because its sizes differ
C4_Witness ==
    /\ Assembled /\ Before.block_count = 0 /\ op.result = "entry"
    /\ Before.total_compressed_size # Before.total_uncompressed_size
    /\ Before.flags % 2 = 0
    /\ Len(op.kraken) = 1 /\ Len(op.reads) = 1

\* the blocks of an entry, in table order
OwnBlocks(file) ==
    SubSeq(blocks, file.block_index + 1, file.block_index + file.block_count)

\* the decompressed ranges of the entry's blocks partition [0, total_uncompressed_size)
Partitioned(file) ==
    /\ file.block_index >= 0
    /\ file.block_index + file.block_count <= Len(blocks)
    /\ \A k \in 1..file.block_count :
          /\ OwnBlocks(file)[k].decompressed_size > 0
          /\ OwnBlocks(file)[k].decompressed_offset + OwnBlocks(file)[k].decompressed_size
                <= file.total_uncompressed_size
    /\ \A x \in 0..(file.total_uncompressed_size - 1) :
          Cardinality({k \in 1..file.block_count :
                          /\ OwnBlocks(file)[k].decompressed_offset <= x
                          /\ x < OwnBlocks(file)[k].decompressed_offset
                                    + OwnBlocks(file)[k].decompressed_size}) = 1

\* the native calls made for the blocks in front of block k
CallsBefore(file, k) ==
    Cardinality({j \in 1..(k - 1) : OwnBlocks(file)[j].is_compressed})

\* block k of the entry is in the payload as the claim has it
BlockInPlace(file, payload, k) ==
    LET b == OwnBlocks(file)[k]
        pos == op.file_offset + b.compressed_offset
    IN /\ op.reads[k] = [pos |-> pos, len |-> b.compressed_size]
       /\ IF b.is_compressed
          THEN /\ op.kraken[CallsBefore(file, k) + 1].src
                     = SourceBytes(file, pos, b.compressed_size)
               /\ SubSeq(payload, b.decompressed_offset + 1,
                         b.decompressed_offset + b.decompressed_size)
                     = op.kraken[CallsBefore(file, k) + 1].out
          ELSE /\ InSource(file, pos, b.decompressed_size)
               /\ SubSeq(payload, b.decompressed_offset + 1,
                         b.decompressed_offset + b.decompressed_size)
                     = SourceBytes(file, pos, b.decompressed_size)

\* the payload is assembled from the entry's blocks, visited in table order
BlocksInPlace(file, payload) ==
    /\ Len(payload) = file.total_uncompressed_size
    /\ Len(op.reads) = file.block_count
    /\ \A k \in 1..file.block_count : BlockInPlace(file, payload, k)

\* the last call assembled an entry from blocks that partition its payload
FromBlocks ==
    /\ Assembled /\ op.result = "entry" /\ Before.block_count > 0
    /\ Partitioned(Before)

\* every uncompressed block of the entry is stored at its decompressed size
StoredAtSize(file) ==
    \A k \in 1..file.block_count :
        ~OwnBlocks(file)[k].is_compressed =>
            OwnBlocks(file)[k].compressed_size = OwnBlocks(file)[k].decompressed_size

\* C5, as claimed: for blocks that partition the payload, the payload has length
\* total_uncompressed_size, the range of every uncompressed block holds the
\* archive bytes from source offset + compressed_offset on, the range of every
\* compressed block holds the decompressor's output for its compressed_size
\* bytes, and the blocks are visited in table order from block_index
C5_Blocks == FromBlocks => BlocksInPlace(Before, Payload(After))

\* C5, amended: the same, for entries whose uncompressed blocks have
\* compressed_size = decompressed_size
C5_BlocksStoredAtSize ==
    (FromBlocks /\ StoredAtSize(Before)) => BlocksInPlace(Before, Payload(After))

\* a payload of an uncompressed and a compressed block
C5_Witness ==
    /\ FromBlocks /\ StoredAtSize(Before) /\ Before.block_count = 2
    /\ ~OwnBlocks(Before)[1].is_compressed /\ OwnBlocks(Before)[2].is_compressed
    /\ OwnBlocks(Before)[1].compressed_offset # OwnBlocks(Before)[1].decompressed_offset
    /\ Len(op.kraken) = 1

\* C6, as claimed: read_tag on an entry with block_count > 0 and block_index < 0
\* (that is not absent) fails with NegativeBlockIndex(block_index) before any
\* block is read, and the entry stays unloaded
C6_NegativeBlockIndex ==
    (ReadCall /\ Before.block_count > 0 /\ Before.block_index < 0
        /\ ~AbsentCase(Before)) =>
        /\ op.result = "error"
        /\ op.err = Err("NegativeBlockIndex", Before.block_index)
        /\ op.reads = <<>>
        /\ Unloaded(After)

\* what is subtracted from the data offset of an entry of the HD1 archive
Hd1Base ==
    IF header.version <= CampaignFlight THEN 2 * header.hd1_delta
    ELSE header.hd1_delta

\* C7, as claimed: the payload is read at file_data_offset + data_offset in the
\* primary archive and at data_offset - hd1_delta in the HD1 archive, hd1_delta
\* counting twice up to version 52, and for a USE_HD1 entry the subtraction
\* never goes below zero or wraps
C7_Offset ==
    (ReadCall /\ ~AbsentCase(Before) /\ ~Before.is_loaded) =>
        IF HasFlag(Before.data_offset_flags, USE_HD1)
        THEN /\ op.result # "panic"
             /\ Before.data_offset >= Hd1Base
             /\ op.file_offset = Before.data_offset - Hd1Base
        ELSE op.file_offset = file_data_offset + Before.data_offset

----------------------------------------------------------------------------
(* What the claims speak of: tag paths *)

\* open has returned a module of version 53 or later
Opened53 == op.name = "open" /\ phase = "open" /\ header.version >= Season3

\* resource_indices[parent.resource_index .. parent.resource_index + resource_count]
ResourcesOf(parent) ==
    SubSeq(resource_indices, parent.resource_index + 1,
           parent.resource_index + parent.resource_count)

\* the entries of slice in front of the first one that is file i: all of them
\* when file i is not in slice
PositionIn(slice, i) ==
    Cardinality({k \in 1..Len(slice) : \A j \in 1..k : slice[j] # i})

\* the name the rule gives file i: that of a tag, or one built on the stored
\* name of its parent
RuleName(i) ==
    LET file == files[i + 1]
        parent == files[file.parent_index + 1]
    IN IF file.tag_id # -1
       THEN file.tag_group \o <<47>> \o IntToString(file.tag_id) \o <<46>>
                \o file.tag_group
       ELSE parent.tag_name \o <<91>>
                \o NatToString(PositionIn(ResourcesOf(parent), i)) \o <<58>>
                \o (IF parent.tag_id = -1 THEN BlockWord ELSE ResourceWord)
                \o <<93>>

\* every file with a tag id or a parent is named by the rule
NamedByRule ==
    \A i \in 0..(Len(files) - 1) :
        (files[i + 1].tag_id # -1 \/ files[i + 1].parent_index # -1) =>
            files[i + 1].tag_name = RuleName(i)

\* "bitm/43981.bitm"
BitmPath == <<98, 105, 116, 109, 47, 52, 51, 57, 56, 49, 46, 98, 105, 116, 109>>

\* C8, as claimed: from version 53 on open names a tag "{group}/{tag_id}.{group}"
\* and a child "{parent_path}[{child_index}:block]" under a parent without tag
\* id, "{parent_path}[{child_index}:resource]" under a tag, child_index being
\* its position in the parent's resources; A under B under C is named
\* "bitm/43981.bitm[0:block][0:resource]"
C8_TagNames ==
    Opened53 =>
        /\ NamedByRule
        /\ archive = ScenarioArchive =>
              files[1].tag_name
                  = BitmPath \o <<91, 48, 58>> \o BlockWord \o <<93>>
                        \o <<91, 48, 58>> \o ResourceWord \o <<93>>

\* C8, amended: the same rule, child_index being the number of the parent's
\* resources in front of the file (all of them when the file is not among
\* them); A under B under C is named "bitm/43981.bitm[1:resource][0:block]"
C8_TagNamesAmended ==
    Opened53 =>
        /\ NamedByRule
        /\ archive = ScenarioArchive =>
              files[1].tag_name
                  = BitmPath \o <<91, 49, 58>> \o ResourceWord \o <<93>>
                        \o <<91, 48, 58>> \o BlockWord \o <<93>>

\* A, B and C have been named
C8_Witness ==
    /\ Opened53 /\ archive = ScenarioArchive
    /\ files[3].tag_name = BitmPath
    /\ files[2].tag_name = BitmPath \o <<91, 49, 58>> \o ResourceWord \o <<93>>

\* C9, as claimed: a file with neither a tag id nor a parent gets the empty path
C9_Orphan ==
    Opened53 =>
        \A i \in 1..Len(files) :
            (files[i].tag_id = -1 /\ files[i].parent_index = -1) =>
                files[i].tag_name = <<>>

\* C9, amended: a file with neither a tag id nor a parent is named as a tag of
\* id -1, "{group}/-1.{group}"
C9_OrphanAmended ==
    Opened53 =>
        \A i \in 1..Len(files) :
            (files[i].tag_id = -1 /\ files[i].parent_index = -1) =>
                files[i].tag_name
                    = files[i].tag_group \o <<47, 45, 49, 46>> \o files[i].tag_group

\* a module with such a file has been opened
C9_Witness ==
    /\ Opened53
    /\ \E i \in 1..Len(files) :
          /\ files[i].tag_id = -1 /\ files[i].parent_index = -1
          /\ files[i].tag_name # <<>>

\* entry i of the archive is resolved through a parent that is in the table
ChildEntry(i) ==
    /\ archive.entries[i + 1].tag_id = -1
    /\ archive.entries[i + 1].parent_index \in 0..(Len(archive.entries) - 1)

RECURSIVE ChildLinks(_, _)
\* n child entries follow one another from entry i on
ChildLinks(i, n) ==
    n = 0 \/ (ChildEntry(i) /\ ChildLinks(archive.entries[i + 1].parent_index, n - 1))

\* the parent chain of some entry needs a depth past the bound
ChainExceeds ==
    \E i \in 0..(Len(archive.entries) - 1) : ChildLinks(i, MaxRecursionDepth + 1)

\* every parent index is -1 or in the file table, and every resource range is
\* in the resource table and names files of the file table
TablesSound ==
    \A i \in 1..Len(archive.entries) :
        LET e == archive.entries[i] IN
        /\ e.parent_index \in (-1)..(Len(archive.entries) - 1)
        /\ e.resource_index >= 0 /\ e.resource_count >= 0
        /\ e.resource_index + e.resource_count <= Len(archive.resource_indices)
        /\ \A k \in (e.resource_index + 1)..(e.resource_index + e.resource_count) :
              archive.resource_indices[k] < Len(archive.entries)

\* C10, as claimed: the recursion is bounded at depth 3; a parent chain that
\* exceeds it, cyclic or not, makes open fail with RecursionDepth, and a chain
\* within the bound never yields RecursionDepth
C10_Depth ==
    op.name = "open" =>
        IF ChainExceeds
        THEN op.result = "error" /\ op.err.kind = "RecursionDepth"
        ELSE op.err.kind # "RecursionDepth"

\* C10, amended: a parent chain that exceeds depth 3, cyclic or not, keeps open
\* from succeeding: it fails with RecursionDepth unless a step before the bound
\* fails first on a parent index outside the file table or on a resource range
\* that is negative or outside its table; a chain within the bound never
\* yields RecursionDepth
C10_DepthAmended ==
    op.name = "open" =>
        /\ ChainExceeds => op.result # "ok"
        /\ (ChainExceeds /\ TablesSound) =>
              op.result = "error" /\ op.err.kind = "RecursionDepth"
        /\ ~ChainExceeds => op.err.kind # "RecursionDepth"

\* a chain of four children under a tag has stopped open
C10_Witness ==
    /\ op.name = "open" /\ op.err.kind = "RecursionDepth"
    /\ ChainExceeds /\ TablesSound
    /\ Len(archive.entries) = MaxRecursionDepth + 2
    /\ archive.entries[Len(archive.entries)].tag_id # -1
    /\ \A i \in 1..(Len(archive.entries) - 1) : archive.entries[i].parent_index = i

----------------------------------------------------------------------------
(* What the claims speak of: open, and looking a tag up *)

\* C11, as claimed: get_tag_path evaluated again after open has stored the names
\* yields, for every file, the path that open stored
C11_Idempotent ==
    op.name = "get_tag_path" =>
        /\ op.result = "ok"
        /\ returned.path = files[op.index + 1].tag_name

\* the last call was an open that failed
OpenFailed ==
    /\ op.name = "open" /\ op.result = "error" /\ phase = "failed"
    /\ files = <<>> /\ resource_indices = <<>> /\ blocks = <<>>

\* C12: a header magic other than 0x64686F6D fails the open with the magic
\* error after the four bytes of the magic; a right magic with a version
\* outside {48, 51, 52, 53} fails it with the version error; either way no
\* file entry, resource index or block entry is read and no module is returned
C12_HeaderErrors ==
    op.name = "open" =>
        /\ archive.magic # 1684631405 =>
              /\ OpenFailed
              /\ op.err = Err("ModuleError::IncorrectMagic", archive.magic)
              /\ returned.header_end = 4
        /\ (archive.magic = 1684631405 /\ archive.version \notin {48, 51, 52, 53}) =>
              /\ OpenFailed
              /\ op.err = Err("ModuleError::IncorrectVersion", archive.version)

\* an archive of another magic and an unknown version has been refused
C12_Witness ==
    /\ op.name = "open" /\ OpenFailed
    /\ archive.magic # 1684631405 /\ archive.version \notin {48, 51, 52, 53}
    /\ Len(archive.entries) > 0
    /\ op.err.kind = "ModuleError::IncorrectMagic"

\* the module is open, whatever was read from it since
IsOpen == phase = "open" \/ (phase = "panicked" /\ op.name # "open")

\* C13, as claimed: file_data_offset is a multiple of 4096 at or after the end
\* of the block table, fewer than 4096 bytes behind it, and no read_tag or
\* read_tag_from_id changes it
C13_DataOffset ==
    IsOpen =>
        /\ file_data_offset % 4096 = 0
        /\ file_data_offset >= TablesEnd(archive)
        /\ file_data_offset - TablesEnd(archive) < 4096

\* C13, amended: file_data_offset is the first multiple of 4096 strictly after
\* the end of the block table, 1 to 4096 bytes behind it, and no read_tag or
\* read_tag_from_id changes it
C13_DataOffsetAmended ==
    IsOpen =>
        /\ file_data_offset % 4096 = 0
        /\ file_data_offset > TablesEnd(archive)
        /\ file_data_offset - TablesEnd(archive) <= 4096

\* a module whose block table ends on a boundary has been read from
C13_Witness ==
    /\ IsOpen /\ op.name = "read_tag" /\ op.result = "entry"
    /\ TablesEnd(archive) % 4096 = 0
    /\ file_data_offset = TablesEnd(archive) + 4096

\* the files as the last read_tag or read_tag_from_id found them
FilesBefore == [files EXCEPT ![op.index + 1] = Before]

\* C20: read_tag_from_id(id) reads the lowest index whose tag_id is id with the
\* result and the effect read_tag has on it, and returns absent without
\* touching an entry when no file has that tag_id
C20_FromId ==
    [][op'.name = "read_tag_from_id" =>
          LET hits == {i \in 0..(Len(files) - 1) :
                          files[i + 1].tag_id = returned'.global_id}
          IN IF hits = {}
             THEN op'.result = "absent" /\ files' = files
             ELSE /\ \A i \in hits : op'.index <= i
                  /\ op'.index \in hits
                  /\ \E krets \in KrakenReturnSeqs(KrakenSizes(files[op'.index + 1],
                                                                blocks)) :
                        LET out == ModuleReadTag(archive, header, files, blocks,
                                                 file_data_offset, hd1_file,
                                                 op'.index, krets)
                        IN /\ files' = [files EXCEPT ![op'.index + 1] = out.file]
                           /\ op'.result = (IF out.result = "ok" THEN "entry"
                                            ELSE out.result)
                           /\ op'.err = out.err
                           /\ op'.reads = out.reads]_vars

\* of two files of one tag id the first has been read, the second not
C20_Witness ==
    /\ op.name = "read_tag_from_id" /\ op.index = 0 /\ op.result = "entry"
    /\ Len(files) = 2 /\ files[2].tag_id = files[1].tag_id
    /\ files[1].is_loaded /\ ~files[2].is_loaded

----------------------------------------------------------------------------
(* infinite-rs-derive and tag/types/common_types.rs: declared layouts *)

\* a u32 is modelled with U32Bits bits
U32Bits == 12

\* a + b on u32: a checked build panics on overflow, an unchecked build wraps
AddU32(a, b, checked) ==
    IF a + b < Pow2(U32Bits) THEN [result |-> "ok", val |-> a + b]
    ELSE IF checked THEN [result |-> "panic", val |-> 0]
    ELSE [result |-> "ok", val |-> (a + b) % Pow2(U32Bits)]

\* bytes FieldBlock::read consumes: type_info, unknown, size
FieldBlockSize == 20

\* bytes FieldData::read consumes: data_pointer, type_info, unknown, size
FieldDataSize == 24

\* bytes FieldTagResource::read consumes: block, handle, resource_index
FieldTagResourceSize == 16

\* #[data(offset(..))] name: kind, a primitive kind reading len bytes and a
\* FieldBlock<elem> or FieldTagResource<elem> naming the layout it holds
Field(name, offset, kind, len, elem) ==
    [name |-> name, offset |-> offset, kind |-> kind, len |-> len, elem |-> elem]

\* the declared layouts: #[data(size(..))] and the fields in declaration order
Layouts ==
    [Leaf |-> [size |-> 2, fields |-> <<Field("y", 1, "ByteInt", 1, "")>>],
     Elem |-> [size |-> 24,
               fields |-> <<Field("x", 0, "ByteInt", 1, ""),
                            Field("inner", 4, "FieldBlock", 0, "Leaf")>>],
     Main |-> [size |-> 76,
               fields |-> <<Field("a", 0, "DwordInt", 4, ""),
                            Field("params", 4, "FieldBlock", 0, "Elem"),
                            Field("server", 24, "FieldData", 0, ""),
                            Field("client", 48, "FieldData", 0, "")>>],
     Shuffled |-> [size |-> 76,
                   fields |-> <<Field("server", 24, "FieldData", 0, ""),
                                Field("a", 0, "DwordInt", 4, ""),
                                Field("client", 48, "FieldData", 0, ""),
                                Field("params", 4, "FieldBlock", 0, "Elem")>>],
     Scripts |-> [size |-> 76,
                  fields |-> <<Field("server", 24, "FieldData", 0, ""),
                               Field("client", 48, "FieldData", 0, "")>>],
     Res |-> [size |-> 24,
              fields |-> <<Field("a", 0, "DwordInt", 4, ""),
                           Field("resource", 8, "FieldTagResource", 0, "Elem")>>]]

\* bytes the read of a field consumes
FieldLen(f) ==
    IF f.kind = "FieldBlock" THEN FieldBlockSize
    ELSE IF f.kind = "FieldData" THEN FieldDataSize
    ELSE IF f.kind = "FieldTagResource" THEN FieldTagResourceSize
    ELSE f.len

\* a reader over a buffer: its position and what has been asked of it
Reader(pos) == [result |-> "ok", err |-> NoErr, pos |-> pos, trace |-> <<>>]

Event(ev, at, len, layout, args) ==
    [ev |-> ev, at |-> at, len |-> len, layout |-> layout, args |-> args]

\* reader.seek(SeekFrom::Start(to))
CursorSeek(st, to) ==
    [st EXCEPT !.pos = to, !.trace = Append(@, Event("seek", to, 0, "", <<>>))]

\* read_exact of len bytes at the position of the reader
CursorRead(st, buf, len) ==
    IF st.pos + len > Len(buf)
    THEN [st EXCEPT !.result = "error", !.err = Err("ReadError", 0),
                    !.trace = Append(@, Event("read", st.pos, len, "", <<>>))]
    ELSE [st EXCEPT !.pos = @ + len,
                    !.trace = Append(@, Event("read", st.pos, len, "", <<>>))]

\* a field before it is read
NoValue ==
    [kind |-> "", bytes |-> <<>>, size |-> 0, elements |-> <<>>, data |-> <<>>,
     field_offset |-> 0]

\* the field as its read leaves it, the reader standing at `at`
FieldValue(f, buf, at) ==
    IF at + FieldLen(f) > Len(buf) THEN NoValue
    ELSE IF f.kind = "FieldBlock"
    THEN [NoValue EXCEPT !.kind = "FieldBlock", !.field_offset = at,
                         !.size = U32LE(buf, at + 16)]
    ELSE IF f.kind = "FieldData"
    THEN [NoValue EXCEPT !.kind = "FieldData", !.size = U32LE(buf, at + 20)]
    ELSE [NoValue EXCEPT !.kind = f.kind, !.bytes = Slice(buf, at, f.len)]

RECURSIVE ReadFields(_, _, _, _, _, _, _)
\* the field reads of a generated read from field k on, then the closing seek:
\* reader.seek(SeekFrom::Start(main_offset + offset)), the sum taken on u64
ReadFields(layout, k, main_offset, st, buf, checked, acc) ==
    IF st.result # "ok" THEN [st |-> st, val |-> [fields |-> acc]]
    ELSE IF k > Len(layout.fields)
    THEN IF AddU64(main_offset, layout.size, checked).result # "ok"
         THEN [st |-> [st EXCEPT !.result = "panic"], val |-> [fields |-> acc]]
         ELSE [st |-> CursorSeek(st, AddU64(main_offset, layout.size, checked).val),
               val |-> [fields |-> acc]]
    ELSE IF AddU64(main_offset, layout.fields[k].offset, checked).result # "ok"
    THEN [st |-> [st EXCEPT !.result = "panic"], val |-> [fields |-> acc]]
    ELSE ReadFields(layout, k + 1, main_offset,
                    CursorRead(CursorSeek(st, AddU64(main_offset,
                                                     layout.fields[k].offset,
                                                     checked).val),
                               buf, FieldLen(layout.fields[k])),
                    buf, checked,
                    Append(acc, FieldValue(layout.fields[k], buf,
                                           AddU64(main_offset, layout.fields[k].offset,
                                                  checked).val)))

\* the generated TagStructure::read: main_offset is the position on entry
TagStructureRead(layout, st, buf, checked) ==
    ReadFields(layout, 1, st.pos, st, buf, checked, <<>>)

\* the generated TagStructure::offsets, the field map iterated in some order
TagStructureOffsets(layout, order) ==
    {<<layout.fields[order[i]].name, layout.fields[order[i]].offset>> :
        i \in 1..Len(layout.fields)}

\* TagDataBlock::get_offset
GetOffset(block, hdr, checked) ==
    IF block.section_type = "ResourceData"
    THEN AddU64(hdr.data_size, block.offset, checked)
    ELSE IF block.section_type = "ActualResource"
    THEN IF AddU32(hdr.data_size, hdr.resource_size, checked).result # "ok"
         THEN AddU32(hdr.data_size, hdr.resource_size, checked)
         ELSE AddU64(AddU32(hdr.data_size, hdr.resource_size, checked).val,
                     block.offset, checked)
    ELSE AddU64(0, block.offset, checked)

RECURSIVE EntrySizes(_, _)
\* the sum of entry_size over the datablocks of section TagData from k on, to
\* be taken on u32: .map(|x| x.entry_size).sum::<u32>()
EntrySizes(blks, k) ==
    IF k > Len(blks) THEN 0
    ELSE (IF blks[k].section_type = "TagData" THEN blks[k].entry_size ELSE 0)
            + EntrySizes(blks, k + 1)

\* structs.iter().enumerate().find(..): the first struct definition rooted at
\* the block and offset of a field, 1-based, or 0
BlockRoot(structs, current_block, collection_offset) ==
    LET hits == {i \in 1..Len(structs) :
                    /\ structs[i].field_block = current_block
                    /\ structs[i].field_offset = collection_offset
                    /\ structs[i].target_index # -1}
    IN IF hits = {} THEN 0 ELSE CHOOSE i \in hits : \A j \in hits : i <= j

\* the datablock FieldBlock::load_blocks finds for a field and the offset it
\* seeks to: "none" without a struct definition or a datablock at its target
BlockOffset(tf, current_block, collection_offset, checked) ==
    LET root == BlockRoot(tf.struct_definitions, current_block, collection_offset)
        target == IF root = 0 THEN -1 ELSE tf.struct_definitions[root].target_index
    IN IF target < 0 \/ target >= Len(tf.datablock_definitions)
       THEN [result |-> "none", val |-> 0, target_index |-> target]
       ELSE IF AddU32(0, EntrySizes(tf.datablock_definitions, 1), checked).result # "ok"
       THEN [result |-> "panic", val |-> 0, target_index |-> target]
       ELSE IF tf.datablock_definitions[target + 1].section_type = "ResourceData"
       THEN [target_index |-> target] @@
            AddU64(tf.datablock_definitions[target + 1].offset,
                   AddU32(0, EntrySizes(tf.datablock_definitions, 1), checked).val, checked)
       ELSE [result |-> "ok", val |-> tf.datablock_definitions[target + 1].offset,
             target_index |-> target]

\* FieldData::load_data once the target datablock is found at off
LoadDataAt(fv, off, st, buf) ==
    IF off.result # "ok" THEN [st |-> [st EXCEPT !.result = off.result], val |-> fv]
    ELSE IF CursorRead(CursorSeek(st, off.val), buf, fv.size).result # "ok"
    THEN [st |-> CursorRead(CursorSeek(st, off.val), buf, fv.size), val |-> fv]
    ELSE [st |-> CursorSeek(CursorRead(CursorSeek(st, off.val), buf, fv.size),
                            st.pos),
          val |-> [fv EXCEPT !.data = Slice(buf, off.val, fv.size)]]

\* FieldData::load_data(reader, parent_index, parent_struct_index, tag_file)
LoadData(fv, parent_index, parent_struct_index, st, env) ==
    LET refs == SelectSeq(env.tf.data_references,
                          LAMBDA x : x.field_block = parent_index)
    IN IF parent_struct_index >= Len(refs) THEN [st |-> st, val |-> fv]
       ELSE IF refs[parent_struct_index + 1].target_index = -1
       THEN [st |-> st, val |-> fv]
       ELSE IF refs[parent_struct_index + 1].target_index < 0
       THEN [st |-> [st EXCEPT !.result = "error",
                               !.err = Err("TryFromIntError", 0)],
             val |-> fv]
       ELSE IF refs[parent_struct_index + 1].target_index
                   >= Len(env.tf.datablock_definitions)
       THEN [st |-> st, val |-> fv]
       ELSE LoadDataAt(fv,
                       GetOffset(env.tf.datablock_definitions[
                                     refs[parent_struct_index + 1].target_index + 1],
                                 env.tf.header, env.checked),
                       st, env.buf)

RECURSIVE LoadFieldBlocks(_, _, _, _, _, _, _)
RECURSIVE LoadFields(_, _, _, _, _, _, _, _)
RECURSIVE LoadChildren(_, _, _, _, _, _, _)
RECURSIVE ReadElements(_, _, _, _, _, _, _)

\* the loop of LoadChildren once element idx has come back as loaded
NextChild(fv, elem, target_index, idx, elems, loaded, env) ==
    LoadChildren(fv, elem, target_index, idx + 1,
                 [elems EXCEPT ![idx + 1] = loaded.val], loaded.st, env)

\* for (idx, element) in self.elements.iter_mut().enumerate() {
\*     element.load_field_blocks(target_index, idx, size * idx, ..)? }
LoadChildren(fv, elem, target_index, idx, elems, st, env) ==
    IF st.result # "ok" \/ idx >= Len(elems)
    THEN [st |-> st, val |-> [fv EXCEPT !.elements = elems]]
    ELSE NextChild(fv, elem, target_index, idx, elems,
                   LoadFieldBlocks(elem, elems[idx + 1], target_index, idx,
                                   Layouts[elem].size * idx, st, env),
                   env)

\* the loop of ReadElements once object.read has come back with read
PushElement(fv, elem, target_index, n, read, env, acc) ==
    IF read.st.result # "ok"
    THEN [st |-> read.st, val |-> [fv EXCEPT !.elements = acc]]
    ELSE ReadElements(fv, elem, target_index, n - 1, read.st, env,
                      Append(acc, read.val))

\* for _ in 0..self.size { object.read(reader)?; self.elements.push(object) },
\* and then the loop over the elements
ReadElements(fv, elem, target_index, n, st, env, acc) ==
    IF n = 0 THEN LoadChildren(fv, elem, target_index, 0, acc, st, env)
    ELSE PushElement(fv, elem, target_index, n,
                     TagStructureRead(Layouts[elem], st, env.buf, env.checked),
                     env, acc)

\* LoadBlocks looking for the elements of an empty block too
LoadBlocksAlways(fv, elem, current_block, collection_offset, st, env) ==
    IF BlockOffset(env.tf, current_block, collection_offset, env.checked).result
            = "none"
    THEN [st |-> st, val |-> fv]
    ELSE IF BlockOffset(env.tf, current_block, collection_offset,
                        env.checked).result = "panic"
    THEN [st |-> [st EXCEPT !.result = "panic"], val |-> fv]
    ELSE ReadElements(fv, elem,
                      BlockOffset(env.tf, current_block, collection_offset,
                                  env.checked).target_index,
                      fv.size,
                      CursorSeek(st, BlockOffset(env.tf, current_block,
                                                 collection_offset, env.checked).val),
                      env, fv.elements)

\* FieldBlock::load_blocks(current_block, collection_offset, reader, tag_file)
LoadBlocks(fv, elem, current_block, collection_offset, st, env) ==
    IF fv.size = 0 THEN [st |-> st, val |-> fv]
    ELSE IF BlockOffset(env.tf, current_block, collection_offset, env.checked).result
            = "none"
    THEN [st |-> st, val |-> fv]
    ELSE IF BlockOffset(env.tf, current_block, collection_offset,
                        env.checked).result = "panic"
    THEN [st |-> [st EXCEPT !.result = "panic"], val |-> fv]
    ELSE ReadElements(fv, elem,
                      BlockOffset(env.tf, current_block, collection_offset,
                                  env.checked).target_index,
                      fv.size,
                      CursorSeek(st, BlockOffset(env.tf, current_block,
                                                 collection_offset, env.checked).val),
                      env, fv.elements)

\* ResourceLoaded leaving the reader where the resource has been read
ResourceLoadedBehind(fv, position, loaded) ==
    [st |-> loaded.st,
     val |-> IF loaded.st.result # "ok" THEN fv
             ELSE [fv EXCEPT !.elements = <<loaded.val>>]]

\* load_resource once the blocks of self.data have come back as loaded: the
\* reader is put back where it stood, reader.seek(SeekFrom::Start(position))
ResourceLoaded(fv, position, loaded) ==
    IF loaded.st.result # "ok" THEN [st |-> loaded.st, val |-> fv]
    ELSE [st |-> CursorSeek(loaded.st, position),
          val |-> [fv EXCEPT !.elements = <<loaded.val>>]]

\* load_resource once self.data.read has come back with read:
\* self.data.load_field_blocks(target_index, resource.0, 0, ..)
ReadResource(fv, elem, target_index, resource, position, read, env) ==
    IF read.st.result # "ok" THEN [st |-> read.st, val |-> fv]
    ELSE ResourceLoaded(fv, position,
                        LoadFieldBlocks(elem, read.val, target_index, resource, 0,
                                        read.st, env))

\* FieldTagResource::load_resource(adjusted_base, reader, tag_file), the
\* resource laid out as elem
LoadResource(fv, elem, adjusted_base, st, env) ==
    LET hits == {i \in 1..Len(env.tf.struct_definitions) :
                    /\ env.tf.struct_definitions[i].struct_type = "Custom"
                    /\ env.tf.struct_definitions[i].field_offset = adjusted_base}
        resource == IF hits = {} THEN 0
                    ELSE CHOOSE i \in hits : \A j \in hits : i <= j
        target_index == IF resource = 0 THEN -1
                        ELSE env.tf.struct_definitions[resource].target_index
    IN IF resource = 0 THEN [st |-> st, val |-> fv]
       ELSE IF target_index < 0
       THEN [st |-> [st EXCEPT !.result = "error",
                               !.err = Err("TryFromIntError", 0)],
             val |-> fv]
       ELSE IF target_index >= Len(env.tf.datablock_definitions)
       THEN [st |-> st, val |-> fv]
       ELSE IF GetOffset(env.tf.datablock_definitions[target_index + 1],
                         env.tf.header, env.checked).result # "ok"
       THEN [st |-> [st EXCEPT !.result = "panic"], val |-> fv]
       ELSE ReadResource(fv, elem, target_index, resource - 1, st.pos,
                         TagStructureRead(
                             Layouts[elem],
                             CursorSeek(st,
                                        GetOffset(env.tf.datablock_definitions[
                                                      target_index + 1],
                                                  env.tf.header, env.checked).val),
                             env.buf, env.checked),
                         env)

\* the loader call the generated load_field_blocks makes for one field
LoadField(layout, k, fv, source_index, parent_index, adjusted_base, st, env) ==
    IF layout.fields[k].kind = "FieldBlock"
    THEN LoadBlocks(fv, layout.fields[k].elem, source_index,
                    adjusted_base + layout.fields[k].offset,
                    [st EXCEPT !.trace =
                        Append(@, Event("load_blocks", layout.fields[k].offset, 0,
                                        layout.fields[k].elem,
                                        <<source_index,
                                          adjusted_base + layout.fields[k].offset>>))],
                    env)
    ELSE IF layout.fields[k].kind = "FieldData"
    THEN LoadData(fv, source_index, parent_index, st, env)
    ELSE IF layout.fields[k].kind = "FieldTagResource"
    THEN LoadResource(fv, layout.fields[k].elem,
                      adjusted_base + layout.fields[k].offset, st, env)
    ELSE [st |-> st, val |-> fv]

\* the loop of LoadFields once field k has come back as loaded
NextField(lname, k, val, source_index, parent_index, adjusted_base, loaded, env) ==
    LoadFields(lname, k + 1, [val EXCEPT !.fields[k] = loaded.val],
               source_index, parent_index, adjusted_base, loaded.st, env)

\* the loader calls of a generated load_field_blocks from field k on
LoadFields(lname, k, val, source_index, parent_index, adjusted_base, st, env) ==
    IF st.result # "ok" \/ k > Len(Layouts[lname].fields)
    THEN [st |-> st, val |-> val]
    ELSE NextField(lname, k, val, source_index, parent_index, adjusted_base,
                   LoadField(Layouts[lname], k, val.fields[k], source_index,
                             parent_index, adjusted_base, st, env),
                   env)

\* the generated TagStructure::load_field_blocks
LoadFieldBlocks(lname, val, source_index, parent_index, adjusted_base, st, env) ==
    LoadFields(lname, 1, val, source_index, parent_index, adjusted_base,
               [st EXCEPT !.trace =
                   Append(@, Event("load_field_blocks", 0, 0, lname,
                                   <<source_index, parent_index, adjusted_base>>))],
               env)

----------------------------------------------------------------------------
(* module/file.rs: the accessors of a loaded entry *)

\* the bytes read_to_end takes from a cursor standing at pos
RestOf(data, pos) ==
    IF pos >= Len(data) THEN <<>> ELSE Slice(data, pos, Len(data) - pos)

\* where read_to_end leaves a cursor that stood at pos
EndOf(data, pos) == IF pos >= Len(data) THEN pos ELSE Len(data)

\* what a call hands back, and what its reader was asked on the way
MetaOut(file, result, err, val, st) ==
    [file |-> file, result |-> result, err |-> err, val |-> val,
     trace |-> st.trace, pos |-> st.pos]

\* what a call hands back once its last step has come back with loaded
MetaLoaded(file, loaded) ==
    MetaOut(file, loaded.st.result, loaded.st.err,
            IF loaded.st.result = "ok" THEN loaded.val ELSE [fields |-> <<>>], loaded.st)

\* read_metadata once struct_type.read has come back with read
ReadMain(file, lname, target_index, read, env) ==
    IF read.st.result # "ok"
    THEN MetaOut(file, read.st.result, read.st.err, [fields |-> <<>>], read.st)
    ELSE MetaLoaded(file, LoadFieldBlocks(lname, read.val, target_index, 0, 0,
                                          read.st, env))

\* struct_definitions.iter().find(|s| s.struct_type == MainStruct), 1-based, or 0
MainStruct(structs) ==
    LET hits == {i \in 1..Len(structs) : structs[i].struct_type = "MainStruct"}
    IN IF hits = {} THEN 0 ELSE CHOOSE i \in hits : \A j \in hits : i <= j

\* read_metadata once the payload behind the cursor is in full_tag
ReadFullTag(file, lname, full_tag, checked) ==
    LET tf == file.tag_info[1]
        main == MainStruct(tf.struct_definitions)
        target_index == tf.struct_definitions[main].target_index
    IN IF file.tag_info = <<>>
       THEN MetaOut(file, "error", Err("TagError::NoTagInfo", 0), [fields |-> <<>>],
                    Reader(0))
       ELSE IF main = 0
       THEN MetaOut(file, "error", Err("TagError::MainStructNotFound", 0),
                    [fields |-> <<>>], Reader(0))
       ELSE IF target_index < 0 \/ target_index >= Len(tf.datablock_definitions)
       THEN MetaOut(file, "panic", NoErr, [fields |-> <<>>], Reader(0))
       ELSE IF tf.datablock_definitions[target_index + 1].offset > I64Max
       THEN MetaOut(file, "error", Err("TryFromIntError", 0), [fields |-> <<>>], Reader(0))
       ELSE ReadMain(file, lname, target_index,
                     TagStructureRead(
                         Layouts[lname],
                         CursorSeek(Reader(0),
                                    tf.datablock_definitions[target_index + 1].offset),
                         full_tag, checked),
                     [buf |-> full_tag, tf |-> tf, checked |-> checked])

\* ModuleFileEntry::read_metadata::<T>, T laid out as lname: sizing the buffer
\* by total_uncompressed_size - uncompressed_header_size comes first, and
\* panics below zero on the subtraction or on the capacity it wraps to
FileReadMetadata(file, lname, checked) ==
    IF file.total_uncompressed_size < file.uncompressed_header_size
    THEN MetaOut(file, "panic", NoErr, [fields |-> <<>>], Reader(0))
    ELSE IF file.data_stream = <<>>
    THEN MetaOut(file, "error", Err("TagError::NotLoaded", 0), [fields |-> <<>>], Reader(0))
    ELSE ReadFullTag([file EXCEPT !.data_stream[1].pos =
                         EndOf(file.data_stream[1].data, file.data_stream[1].pos)],
                     lname,
                     RestOf(file.data_stream[1].data, file.data_stream[1].pos),
                     checked)

\* ModuleFileEntry::get_raw_data(include_header), the buffer in val: its
\* capacity is total_uncompressed_size, less uncompressed_header_size without
\* the header, and panics below zero as in read_metadata
FileGetRawData(file, include_header) ==
    IF file.data_stream = <<>>
    THEN MetaOut(file, "error", Err("TagError::NotLoaded", 0), <<>>, Reader(0))
    ELSE IF include_header
    THEN MetaOut([file EXCEPT !.data_stream[1].pos =
                     EndOf(file.data_stream[1].data, 0)],
                 "ok", NoErr, file.data_stream[1].data,
                 Reader(EndOf(file.data_stream[1].data, 0)))
    ELSE IF file.total_uncompressed_size < file.uncompressed_header_size
    THEN MetaOut([file EXCEPT !.data_stream[1].pos = file.uncompressed_header_size],
                 "panic", NoErr, <<>>, Reader(file.uncompressed_header_size))
    ELSE MetaOut([file EXCEPT !.data_stream[1].pos =
                     EndOf(file.data_stream[1].data, file.uncompressed_header_size)],
                 "ok", NoErr,
                 RestOf(file.data_stream[1].data, file.uncompressed_header_size),
                 Reader(EndOf(file.data_stream[1].data,
                              file.uncompressed_header_size)))

----------------------------------------------------------------------------
(* The tags the accessors are run on *)

\* where the tag data of the tags below keeps its parts: the records of the
\* `inner` blocks behind the main record, the two data buffers, the elements
\* of `params`, and its end
TagParts == [leaves |-> 76, server |-> 80, client |-> 83, elements |-> 85,
             end |-> 133]

\* a tag: n elements under `params`, m records under the `inner` of the first
\* element, the elements in a datablock of section `section`, the struct
\* definition of `params` present or not and targeting `root`, the main struct
\* definition present or not and targeting `main`, the data references as
\* pairs of field_block and target_index, entry sizes that add up past a u32
\* or not, the records of `inner` at the far end of the u64 offsets or not,
\* bytes cut off the end, the section and the offset of the datablock of the
\* first data buffer, the data_size and resource_size of the tag header, and
\* the Custom struct definitions as pairs of target_index and field_offset
BaseTag ==
    [n |-> 1, m |-> 1, section |-> "TagData", has_root |-> TRUE, root |-> 1,
     has_main |-> TRUE, main |-> 0, refs |-> <<<<0, 3>>, <<0, 4>>>>,
     wide |-> FALSE, far |-> FALSE, cut |-> 0, checked |-> TRUE,
     blob |-> "TagData", blob_offset |-> TagParts.server,
     sizes |-> <<TagParts.elements, TagParts.end - TagParts.elements>>,
     custom |-> <<>>]

\* the tables TagFile::read keeps for a tag
TagTables(fx) ==
    [datablock_definitions |->
        <<[entry_size |-> TagParts.leaves, section_type |-> "TagData", offset |-> 0],
          [entry_size |-> TagParts.end - TagParts.elements,
           section_type |-> fx.section,
           offset |-> IF fx.section = "ResourceData" THEN 0 ELSE TagParts.elements],
          [entry_size |-> IF fx.wide THEN Pow2(U32Bits) - TagParts.elements + 4
                          ELSE 4,
           section_type |-> "TagData",
           offset |-> IF fx.far THEN U64 - 1 ELSE TagParts.leaves],
          [entry_size |-> 3, section_type |-> fx.blob, offset |-> fx.blob_offset],
          [entry_size |-> 2, section_type |-> "TagData", offset |-> TagParts.client]>>,
     struct_definitions |->
        (IF fx.has_main
         THEN <<[struct_type |-> "MainStruct", target_index |-> fx.main,
                 field_block |-> -1, field_offset |-> 0]>>
         ELSE <<>>)
        \o (IF fx.has_root
            THEN <<[struct_type |-> "TagBlock", target_index |-> fx.root,
                    field_block |-> 0, field_offset |-> 4]>>
            ELSE <<>>)
        \o <<[struct_type |-> "TagBlock", target_index |-> 2, field_block |-> 1,
              field_offset |-> 4]>>
        \o [i \in 1..Len(fx.custom) |->
               [struct_type |-> "Custom", target_index |-> fx.custom[i][1],
                field_block |-> 0, field_offset |-> fx.custom[i][2]]],
     data_references |->
        [i \in 1..Len(fx.refs) |->
            [field_block |-> fx.refs[i][1], target_index |-> fx.refs[i][2]]]]

\* the payload of a tag: the header, the tables (their bytes left zero) and the
\* tag data, every byte its own value but for the sizes of the blocks and of
\* the data buffers where the fields keep them
TagPayload(fx) ==
    LET head ==
            <<117, 99, 115, 104, TAG_HEADER_VERSION, 0, 0, 0>> \o Zeros(20)
                \o <<Len(TagTables(fx).datablock_definitions), 0, 0, 0,
                     Len(TagTables(fx).struct_definitions), 0, 0, 0,
                     Len(fx.refs), 0, 0, 0>>
                \o Zeros(20)
                \o EncodeU32LE(fx.sizes[1]) \o EncodeU32LE(fx.sizes[2])
                \o Zeros(12)
        body ==
            [i \in 1..(TagParts.end - fx.cut) |->
                CASE i - 1 \in {21, 22, 23, 45, 46, 47, 69, 70, 71} -> 0
                  [] i - 1 \in (TagParts.elements + 21)..(TagParts.elements + 23) -> 0
                  [] i - 1 \in (TagParts.elements + 44)..(TagParts.elements + 47) -> 0
                  [] i - 1 = 20 -> fx.n
                  [] i - 1 = 44 -> TagParts.client - TagParts.server
                  [] i - 1 = 68 -> TagParts.elements - TagParts.client
                  [] i - 1 = TagParts.elements + 20 -> fx.m
                  [] OTHER -> (i % 250) + 1]
    IN head \o Zeros(TagTablesSize(TagHeaderFields(head), Season3)) \o body

\* the entry of a tag as read_tag leaves it, TagFile::read having kept the
\* tables of the tag
TagEntry(fx) ==
    LET data == TagPayload(fx)
        tf == TagFileRead(data, Season3)
    IN TakeTag([EntryRead([BaseEntry EXCEPT
                              !.total_compressed_size = Len(data),
                              !.total_uncompressed_size = Len(data),
                              !.uncompressed_header_size = tf.pos],
                          FALSE).file
                   EXCEPT !.data_stream = <<[data |-> data, pos |-> 0]>>],
               0, Assembly(data),
               [tf EXCEPT !.info = <<[header |-> TagHeaderFields(data)]
                                       @@ TagTables(fx)>>]).file

----------------------------------------------------------------------------
(* The state machine of one entry and its accessors *)

\* a module holding one entry: a tag with blocks of every size, in either
\* section, rooted or not; a tag whose main struct definition is missing or
\* targets no datablock; a tag whose data references are in either order,
\* missing or without a target; a tag whose entry sizes add up past a u32; a
\* tag cut short; a tag with a datablock at the last offset a u64 holds; a
\* tag with a Custom struct definition for the resource at 8; a raw
\* file or an entry never read, its header size below or above the total
InitTag ==
    /\ \/ \E fx \in
             {[BaseTag EXCEPT !.n = n, !.m = m, !.section = sc, !.has_root = hr[1],
                              !.root = hr[2]] :
                 n \in 0..2, m \in {0, 2}, sc \in {"TagData", "ResourceData"},
                 hr \in {<<TRUE, 1>>, <<TRUE, -1>>, <<TRUE, 9>>, <<FALSE, 1>>}}
             \cup {[BaseTag EXCEPT !.has_main = FALSE], [BaseTag EXCEPT !.main = -1],
                   [BaseTag EXCEPT !.main = 7]}
             \cup {[BaseTag EXCEPT !.refs = rs] :
                      rs \in {<<<<0, 4>>, <<0, 3>>>>, <<<<0, 4>>>>, <<>>,
                              <<<<1, 3>>, <<0, 4>>>>, <<<<0, -1>>, <<0, 3>>>>,
                              <<<<0, -2>>>>, <<<<0, 9>>>>}}
             \cup {[BaseTag EXCEPT !.wide = TRUE, !.section = sc, !.checked = ck,
                                   !.n = n] :
                      sc \in {"TagData", "ResourceData"}, ck \in BOOLEAN,
                      n \in {0, 1}}
             \cup {[BaseTag EXCEPT !.cut = c, !.n = 2] : c \in {2, 30, 60, 100}}
             \cup {[BaseTag EXCEPT !.far = TRUE, !.m = m, !.checked = ck] :
                      m \in {1, 2}, ck \in BOOLEAN}
             \cup {[BaseTag EXCEPT !.custom = <<<<1, 8>>>>, !.m = m] : m \in {0, 2}} :
             /\ archive = [BaseArchive EXCEPT !.checked = fx.checked]
             /\ files = <<TagEntry(fx)>>
       \/ \E hs \in {0, 2, 5}, loaded \in BOOLEAN, checked \in BOOLEAN :
             /\ archive = [BaseArchive EXCEPT !.checked = checked]
             /\ files =
                   <<[EntryRead([BaseEntry EXCEPT
                                    !.flags = RAW_FILE,
                                    !.total_compressed_size = 3,
                                    !.total_uncompressed_size = 3,
                                    !.uncompressed_header_size = hs],
                                FALSE).file
                        EXCEPT !.data_stream =
                                   IF loaded
                                   THEN <<[data |-> <<10, 11, 12>>, pos |-> 0]>>
                                   ELSE <<>>,
                               !.is_loaded = loaded]>>
    /\ phase = "open"
    /\ header = DefaultModule.header
    /\ resource_indices = DefaultModule.resource_indices
    /\ blocks = DefaultModule.blocks
    /\ file_data_offset = DefaultModule.file_data_offset
    /\ hd1_file = DefaultModule.hd1_file
    /\ op = OpRecord("none", -1, "none", NoErr, NoOutcome, <<>>)
    /\ returned = NoReturn

\* the entry and what the caller holds once a call given `given` has come back
Handed(name, given, out) ==
    /\ files' = <<out.file>>
    /\ phase' = IF out.result = "panic" THEN "panicked" ELSE "open"
    /\ op' = OpRecord(name, 0, out.result, out.err, NoOutcome, files)
    /\ returned' = [kind |-> name, given |-> given, val |-> out.val,
                    trace |-> out.trace, pos |-> out.pos]
    /\ UNCHANGED <<archive, header, resource_indices, blocks, file_data_offset,
                   hd1_file>>

\* files[0].read_metadata::<T>()
ReadMetadata ==
    /\ phase = "open"
    /\ \E lname \in {"Main", "Shuffled", "Scripts", "Res"} :
          Handed("read_metadata", [layout |-> lname],
                 FileReadMetadata(files[1], lname, archive.checked))

\* files[0].get_raw_data(include_header)
GetRawData ==
    /\ phase = "open"
    /\ \E include_header \in BOOLEAN :
          Handed("get_raw_data", [include_header |-> include_header],
                 FileGetRawData(files[1], include_header))

\* T::default().size() and T::default().offsets(), the map of the fields
\* iterated in any order
Describe ==
    /\ phase = "open"
    /\ \E lname \in DOMAIN Layouts :
          \E order \in Permutations(1..Len(Layouts[lname].fields)) :
             /\ op' = OpRecord("offsets", -1, "ok", NoErr, NoOutcome, <<>>)
             /\ returned' =
                   [kind |-> "offsets", given |-> [layout |-> lname],
                    val |-> [size |-> Layouts[lname].size,
                             offsets |-> TagStructureOffsets(Layouts[lname], order)],
                    trace |-> <<>>, pos |-> 0]
    /\ UNCHANGED <<archive, phase, header, files, resource_indices, blocks,
                   file_data_offset, hd1_file>>

\* T::default().read(reader), the reader over the payload and standing where
\* a caller, or load_blocks on a datablock, has left it
ReadRecord ==
    /\ phase = "open"
    /\ files[1].data_stream # <<>>
    /\ \E lname \in DOMAIN Layouts,
          pos \in {0, files[1].uncompressed_header_size, U64 - 2, U64 - 1} :
          Handed("read", [layout |-> lname, main_offset |-> pos],
                 MetaLoaded(files[1],
                            TagStructureRead(Layouts[lname], Reader(pos),
                                             files[1].data_stream[1].data,
                                             archive.checked)))

\* the FieldBlock fields of the tags: where the field is read, the layout of
\* its elements, and the block and offset its struct definition is looked up by
BlockFields ==
    {[at |-> 4, elem |-> "Elem", current_block |-> 0, collection_offset |-> 4],
     [at |-> TagParts.elements + 4, elem |-> "Leaf", current_block |-> 1,
      collection_offset |-> 4],
     [at |-> TagParts.elements + 28, elem |-> "Leaf", current_block |-> 1,
      collection_offset |-> 28],
     [at |-> 4, elem |-> "Elem", current_block |-> 3, collection_offset |-> 4]}

\* field.load_blocks(current_block, collection_offset, reader, tag_info) on a
\* field read from the tag data, the reader over the tag data standing at pos
CallLoadBlocks ==
    /\ phase = "open"
    /\ files[1].data_stream # <<>>
    /\ files[1].tag_info # <<>>
    /\ \E bf \in BlockFields, pos \in {0, TagParts.leaves} :
          LET full_tag == RestOf(files[1].data_stream[1].data,
                                 files[1].uncompressed_header_size)
              block == FieldValue(Field("", bf.at, "FieldBlock", 0, bf.elem),
                                  full_tag, bf.at)
          IN Handed("load_blocks",
                    [field |-> bf, block |-> block, position |-> pos],
                    MetaLoaded(files[1],
                               LoadBlocks(block, bf.elem, bf.current_block,
                                          bf.collection_offset, Reader(pos),
                                          [buf |-> full_tag,
                                           tf |-> files[1].tag_info[1],
                                           checked |-> archive.checked])))

NextTag == ReadMetadata \/ GetRawData \/ Describe \/ ReadRecord \/ CallLoadBlocks

SpecTag == InitTag /\ [][NextTag]_vars

----------------------------------------------------------------------------
(* The state machine of the readers called on their own *)

\* a module holding one tag, or none but an archive of fixed strings: a tag
\* whose data references are in either order, missing or without a target; a
\* tag cut short; a tag whose first data buffer is in any section, at either
\* end of the u64 offsets, under header sizes that add up below or past a
\* u32; a tag with Custom struct definitions for a resource, targeted or not;
\* strings with runs of 0xFF of every length
InitCalls ==
    /\ \/ \E fx \in
             {[BaseTag EXCEPT !.refs = rs, !.checked = ck] :
                 rs \in {<<<<0, 3>>, <<0, 4>>>>, <<<<0, 4>>>>, <<>>,
                         <<<<1, 3>>, <<0, 4>>>>, <<<<0, -1>>, <<0, 3>>>>,
                         <<<<0, -2>>>>, <<<<0, 9>>>>},
                 ck \in BOOLEAN}
             \cup {[BaseTag EXCEPT !.cut = c, !.n = 2] : c \in {2, 30, 60}}
             \cup {[BaseTag EXCEPT !.blob = b, !.blob_offset = o, !.sizes = sz,
                                   !.checked = ck] :
                      b \in {"Header", "ResourceData", "ActualResource"},
                      o \in {0, U64 - 1},
                      sz \in {<<TagParts.elements, TagParts.end - TagParts.elements>>,
                              <<40, 40>>, <<Pow2(U32Bits) - 96, 100>>},
                      ck \in BOOLEAN}
             \cup {[BaseTag EXCEPT !.custom = c, !.section = sc, !.m = m,
                                   !.sizes = sz] :
                      c \in {<<<<1, 8>>>>, <<<<9, 8>>>>, <<<<-2, 8>>>>,
                             <<<<3, 8>>, <<1, 8>>>>, <<<<1, 12>>>>},
                      sc \in {"TagData", "ResourceData"}, m \in {0, 2},
                      sz \in {<<TagParts.elements, TagParts.end - TagParts.elements>>,
                              <<4, 40>>}} :
             /\ archive = [BaseArchive EXCEPT !.checked = fx.checked]
             /\ files = <<TagEntry(fx)>>
       \/ \E data \in {[i \in 1..40 |-> 255], [i \in 1..256 |-> 255],
                        <<65, 66, 67, 68, 255, 255, 255, 255, 72, 105>>,
                        <<255, 255, 255, 65, 255, 255, 255, 255, 66>>,
                        [i \in 1..36 |-> IF i = 20 THEN 0 ELSE 255],
                        [i \in 1..36 |-> 64 + i]} :
             /\ archive = [BaseArchive EXCEPT !.data = data]
             /\ files = <<EntryRead(BaseEntry, FALSE).file>>
    /\ phase = "open"
    /\ header = DefaultModule.header
    /\ resource_indices = DefaultModule.resource_indices
    /\ blocks = DefaultModule.blocks
    /\ file_data_offset = DefaultModule.file_data_offset
    /\ hd1_file = DefaultModule.hd1_file
    /\ op = OpRecord("none", -1, "none", NoErr, NoOutcome, <<>>)
    /\ returned = NoReturn

\* reader.read_fixed_string(length), the reader over the data of the archive
\* and standing at pos: read_exact of length bytes, then the conversion of the
\* bytes read
CallReadFixedString ==
    /\ phase = "open"
    /\ \E length \in {0, 3, 4, 5, 32, 256}, pos \in {0, 4} :
          LET st == CursorRead(Reader(pos), archive.data, length)
              string == IF st.result = "ok"
                        THEN ReadFixedString(Slice(archive.data, pos, length))
                        ELSE [result |-> st.result, err |-> st.err, str |-> <<>>]
          IN Handed("read_fixed_string", [length |-> length, position |-> pos],
                    MetaOut(files[1], string.result, string.err, string.str, st))

\* field.load_data(reader, parent_index, parent_struct_index, tag_info) on a
\* FieldData read from the tag data at `at`, the reader over the tag data
\* standing at pos
CallLoadData ==
    /\ phase = "open"
    /\ files[1].data_stream # <<>>
    /\ files[1].tag_info # <<>>
    /\ \E at \in {24, 48}, parent \in {<<0, 0>>, <<0, 1>>, <<0, 2>>, <<1, 0>>},
          pos \in {0, TagParts.leaves} :
          LET full_tag == RestOf(files[1].data_stream[1].data,
                                 files[1].uncompressed_header_size)
              field == FieldValue(Field("", at, "FieldData", 0, ""), full_tag, at)
          IN Handed("load_data",
                    [field |-> field, parent_index |-> parent[1],
                     parent_struct_index |-> parent[2], position |-> pos],
                    MetaLoaded(files[1],
                               LoadData(field, parent[1], parent[2], Reader(pos),
                                        [buf |-> full_tag,
                                         tf |-> files[1].tag_info[1],
                                         checked |-> archive.checked])))

\* field.load_resource(adjusted_base, reader, tag_info) on the
\* FieldTagResource<Elem> read from the tag data at 8, the reader over the tag
\* data standing at pos
CallLoadResource ==
    /\ phase = "open"
    /\ files[1].data_stream # <<>>
    /\ files[1].tag_info # <<>>
    /\ \E adjusted_base \in {8, 12}, pos \in {0, TagParts.leaves} :
          LET full_tag == RestOf(files[1].data_stream[1].data,
                                 files[1].uncompressed_header_size)
              field == FieldValue(Field("", 8, "FieldTagResource", 0, "Elem"),
                                  full_tag, 8)
          IN Handed("load_resource",
                    [field |-> field, adjusted_base |-> adjusted_base,
                     position |-> pos],
                    MetaLoaded(files[1],
                               LoadResource(field, "Elem", adjusted_base, Reader(pos),
                                            [buf |-> full_tag,
                                             tf |-> files[1].tag_info[1],
                                             checked |-> archive.checked])))

SpecCalls ==
    InitCalls /\ [][CallReadFixedString \/ CallLoadData \/ CallLoadResource]_vars

----------------------------------------------------------------------------
(* What the claims speak of: the accessors of an entry and the declared reads *)

\* the tables of the entry a call was made on, and the payload behind its cursor
TagInfoBefore == Before.tag_info[1]

FullTagBefore == RestOf(Before.data_stream[1].data, Before.data_stream[1].pos)

Failure(kind) == op.result = "error" /\ op.err.kind = kind

\* the main struct definition is there and targets a datablock
MainTargeted(tf) ==
    /\ MainStruct(tf.struct_definitions) # 0
    /\ tf.struct_definitions[MainStruct(tf.struct_definitions)].target_index
          \in 0..(Len(tf.datablock_definitions) - 1)

MainTarget(tf) == tf.struct_definitions[MainStruct(tf.struct_definitions)].target_index

MainBlock(tf) == tf.datablock_definitions[MainTarget(tf) + 1]

\* C14: read_metadata fails with NotLoaded on an entry without a payload, with
\* NoTagInfo on a loaded raw file, with MainStructNotFound when no struct
\* definition is a MainStruct; otherwise it reads T at the datablock the
\* MainStruct targets and calls load_field_blocks(target_index, 0, 0)
C14_Metadata ==
    op.name = "read_metadata" =>
        IF Before.data_stream = <<>> THEN Failure("TagError::NotLoaded")
        ELSE IF Before.tag_info = <<>> THEN Failure("TagError::NoTagInfo")
        ELSE IF MainStruct(TagInfoBefore.struct_definitions) = 0
        THEN Failure("TagError::MainStructNotFound")
        ELSE /\ MainTargeted(TagInfoBefore)
             /\ returned.trace # <<>>
             /\ returned.trace[1] = Event("seek", MainBlock(TagInfoBefore).offset, 0,
                                          "", <<>>)
             /\ \E i \in 1..Len(returned.trace) :
                   returned.trace[i] =
                       Event("load_field_blocks", 0, 0, returned.given.layout,
                             <<MainTarget(TagInfoBefore), 0, 0>>)

\* C15: get_raw_data on an entry with a payload returns the whole payload,
\* total_uncompressed_size bytes, with the header, and the payload behind its
\* first uncompressed_header_size bytes without it, wherever the cursor stands;
\* it fails with NotLoaded on an entry without a payload
C15_RawData ==
    op.name = "get_raw_data" =>
        IF Before.data_stream = <<>> THEN Failure("TagError::NotLoaded")
        ELSE /\ op.result = "ok"
             /\ returned.given.include_header =>
                   /\ returned.val = Before.data_stream[1].data
                   /\ Len(returned.val) = Before.total_uncompressed_size
             /\ ~returned.given.include_header =>
                   returned.val = RestOf(Before.data_stream[1].data,
                                            Before.uncompressed_header_size)

\* the FieldData fields of a layout, and the data references of the main block
DataFields(layout) ==
    {k \in 1..Len(layout.fields) : layout.fields[k].kind = "FieldData"}

MainRefs(tf) ==
    SelectSeq(tf.data_references, LAMBDA x : x.field_block = MainTarget(tf))

\* the j-th FieldData field of a layout in declaration order
DataField(layout, j) ==
    CHOOSE k \in DataFields(layout) :
        Cardinality({i \in DataFields(layout) : i <= k}) = j

\* two FieldData fields, two data references of the main block, both targeted
TwoBuffers ==
    /\ op.name = "read_metadata"
    /\ op.result = "ok"
    /\ Cardinality(DataFields(Layouts[returned.given.layout])) = 2
    /\ Len(MainRefs(TagInfoBefore)) = 2
    /\ \A j \in 1..2 :
          MainRefs(TagInfoBefore)[j].target_index
              \in 0..(Len(TagInfoBefore.datablock_definitions) - 1)

\* C16: with two FieldData fields in the main struct and two data references
\* of the main block, read_metadata fills the first declared field from the
\* datablock of the first reference and the second from that of the second,
\* each with its own size
C16_DataInOrder ==
    TwoBuffers =>
        \A j \in 1..2 :
            returned.val.fields[DataField(Layouts[returned.given.layout], j)].data =
                Slice(FullTagBefore,
                      TagInfoBefore.datablock_definitions[
                          MainRefs(TagInfoBefore)[j].target_index + 1].offset,
                      returned.val.fields[DataField(Layouts[returned.given.layout], j)].size)

\* the seeks and reads of a read of a layout at main_offset, as anchored there
ExpectedReads(layout, main_offset) ==
    [i \in 1..(2 * Len(layout.fields) + 1) |->
        IF i = 2 * Len(layout.fields) + 1
        THEN Event("seek", main_offset + layout.size, 0, "", <<>>)
        ELSE IF i % 2 = 1
        THEN Event("seek", main_offset + layout.fields[(i + 1) \div 2].offset, 0,
                   "", <<>>)
        ELSE Event("read", main_offset + layout.fields[i \div 2].offset,
                   FieldLen(layout.fields[i \div 2]), "", <<>>)]

RECURSIVE ExpectedRecords(_, _, _)
\* the seeks and reads of n consecutive records of a layout from off on
ExpectedRecords(layout, off, n) ==
    IF n = 0 THEN <<>>
    ELSE ExpectedRecords(layout, off, n - 1)
            \o ExpectedReads(layout, off + layout.size * (n - 1))

\* the call load_blocks was made with, and the struct definition it looks up
BlocksCall == op.name = "load_blocks" /\ returned.given.block.size > 0

RootOf(tf, bf) ==
    BlockRoot(tf.struct_definitions, bf.current_block, bf.collection_offset)

TargetOf(tf, bf) == tf.struct_definitions[RootOf(tf, bf)].target_index

\* the datablock the struct definition of the field targets is there
Targeted(tf, bf) ==
    /\ RootOf(tf, bf) # 0
    /\ TargetOf(tf, bf) \in 0..(Len(tf.datablock_definitions) - 1)

\* B.offset, plus the entry sizes of the TagData datablocks for a ResourceData B
ElementsOffset(tf, bf) ==
    tf.datablock_definitions[TargetOf(tf, bf) + 1].offset
        + (IF tf.datablock_definitions[TargetOf(tf, bf) + 1].section_type
                = "ResourceData"
           THEN EntrySizes(tf.datablock_definitions, 1) ELSE 0)

\* the calls of load_field_blocks on the elements of a block, in order
Recursions(trace, elem) ==
    SelectSeq(trace, LAMBDA e : e.ev = "load_field_blocks" /\ e.layout = elem)

\* C17: load_blocks on a block of n > 0 elements whose struct definition
\* targets a datablock B seeks to B.offset, plus the entry sizes of the TagData
\* datablocks when B is ResourceData, reads n consecutive records of U::size()
\* bytes into n elements and recurses into element i with (B, i, U::size() * i)
\* in order; without a struct definition the elements stay empty
C17_Block ==
    BlocksCall =>
        /\ RootOf(TagInfoBefore, returned.given.field) = 0 =>
              op.result = "ok" /\ returned.val.elements = <<>>
        /\ Targeted(TagInfoBefore, returned.given.field) =>
              /\ returned.trace # <<>>
              /\ returned.trace[1] =
                    Event("seek", ElementsOffset(TagInfoBefore, returned.given.field), 0,
                          "", <<>>)
              /\ op.result = "ok" =>
                    /\ Len(returned.val.elements) = returned.given.block.size
                    /\ SubSeq(returned.trace, 2,
                              1 + Len(ExpectedRecords(
                                          Layouts[returned.given.field.elem],
                                          ElementsOffset(TagInfoBefore, returned.given.field),
                                          returned.given.block.size)))
                          = ExpectedRecords(Layouts[returned.given.field.elem],
                                            ElementsOffset(TagInfoBefore,
                                                           returned.given.field),
                                            returned.given.block.size)
                    /\ Recursions(returned.trace, returned.given.field.elem) =
                          [i \in 1..returned.given.block.size |->
                              Event("load_field_blocks", 0, 0, returned.given.field.elem,
                                    <<TargetOf(TagInfoBefore, returned.given.field), i - 1,
                                      Layouts[returned.given.field.elem].size * (i - 1)>>)]

\* C18: load_blocks on a block of size 0 makes no seek, no read and no
\* recursion: the reader stays where it stood and the elements stay empty
C18_EmptyBlock ==
    (op.name = "load_blocks" /\ returned.given.block.size = 0) =>
        /\ op.result = "ok"
        /\ returned.trace = <<>>
        /\ returned.pos = returned.given.position
        /\ returned.val = returned.given.block
        /\ returned.val.elements = <<>>

\* an empty block whose struct definition targets a datablock has been loaded
C18_Witness ==
    /\ op.name = "load_blocks"
    /\ returned.given.block.kind = "FieldBlock"
    /\ returned.given.block.size = 0
    /\ returned.given.position = TagParts.leaves
    /\ Targeted(TagInfoBefore, returned.given.field)

\* C19: a generated read anchors main_offset at the cursor, reads every field
\* at main_offset + O in declaration order and on success leaves the cursor at
\* main_offset + S; size() is S and offsets() maps every field name to its O
C19_Layout ==
    /\ op.name = "read" =>
          /\ op.result # "panic"
          /\ returned.trace =
                SubSeq(ExpectedReads(Layouts[returned.given.layout], returned.given.main_offset),
                       1, Len(returned.trace))
          /\ op.result = "ok" =>
                /\ returned.trace =
                      ExpectedReads(Layouts[returned.given.layout], returned.given.main_offset)
                /\ returned.pos =
                      returned.given.main_offset + Layouts[returned.given.layout].size
    /\ op.name = "offsets" =>
          /\ returned.val.size = Layouts[returned.given.layout].size
          /\ returned.val.offsets =
                {<<Layouts[returned.given.layout].fields[k].name,
                   Layouts[returned.given.layout].fields[k].offset>> :
                    k \in 1..Len(Layouts[returned.given.layout].fields)}

----------------------------------------------------------------------------
(* What the claims speak of: the raw data offset of an entry *)

\* C30: the data offset stored for an entry is the low 48 bits of the raw
\* 64-bit value and the stored flags are its high 16 bits, flag bits without
\* a name kept, so that data_offset + flags * 2^48 is the raw value again
\* (the u64 of the model has OffsetBits bits below its high 16)
C30_OffsetSplit ==
    IsOpen =>
        /\ Len(files) = Len(archive.entries)
        /\ \A i \in 1..Len(files) :
              /\ files[i].data_offset = archive.entries[i].data_offset_raw % Pow2(OffsetBits)
              /\ files[i].data_offset_flags
                    = (archive.entries[i].data_offset_raw \div Pow2(OffsetBits)) % 65536
              /\ files[i].data_offset + files[i].data_offset_flags * Pow2(OffsetBits)
                    = archive.entries[i].data_offset_raw

\* an entry is open whose flags hold a bit without a name next to USE_HD1,
\* above the largest offset
C30_Witness ==
    /\ op.name = "open" /\ phase = "open"
    /\ files[1].data_offset_flags = 4 + USE_HD1
    /\ files[1].data_offset = Pow2(OffsetBits) - 1
    /\ archive.entries[1].data_offset_raw = RawOffset(4 + USE_HD1, Pow2(OffsetBits) - 1)

----------------------------------------------------------------------------
(* What the claims speak of: the native decompressor *)

\* the scratch buffer of a call: what the decompressor wrote for size bytes
\* and the 8 bytes behind it
Scratch(k) == KrakenOutput(k.src, k.size) \o Zeros(8)

\* C28: decompress(src, dst, n), the native call returning r: a negative r
\* fails with DecompressionFailed(r) and leaves dst as it was; an r above
\* n + 8 fails with BufferSizeOverflow; any other r replaces dst by the first
\* r bytes of the scratch buffer of n + 8 bytes, so that dst is r bytes long,
\* and r is returned (dst is n zero bytes in every call read_tag makes)
C28_Decompress ==
    ReadCall =>
        \A i \in 1..Len(op.kraken) :
            IF op.kraken[i].call.val < 0
            THEN /\ op.kraken[i].call.result = "error"
                 /\ op.kraken[i].call.err
                       = Err("DecompressionFailed", op.kraken[i].call.val)
                 /\ op.kraken[i].call.out = Zeros(op.kraken[i].size)
            ELSE IF op.kraken[i].call.val > op.kraken[i].size + 8
            THEN /\ op.kraken[i].call.result = "error"
                 /\ op.kraken[i].call.err.kind = "BufferSizeOverflow"
            ELSE /\ op.kraken[i].call.result = "ok"
                 /\ op.kraken[i].call.out
                       = SubSeq(Scratch(op.kraken[i]), 1, op.kraken[i].call.val)
                 /\ Len(op.kraken[i].call.out) = op.kraken[i].call.val

\* a call came back with a count between the size asked for and the end of
\* the scratch buffer: the output is longer than asked for and ends in zeros
C28_Witness ==
    /\ ReadCall
    /\ \E i \in 1..Len(op.kraken) :
          /\ op.kraken[i].size > 0
          /\ op.kraken[i].call.val = op.kraken[i].size + 8
          /\ op.kraken[i].call.result = "ok"
          /\ Len(op.kraken[i].call.out) = op.kraken[i].size + 8

----------------------------------------------------------------------------
(* What the claims speak of: an entry read again *)

\* the last call failed on the magic or the version of the tag header
TagHeaderRefused ==
    /\ ReadCall /\ op.result = "error"
    /\ op.err.kind \in {"TagError::IncorrectMagic", "TagError::IncorrectVersion"}

\* the entry holds a payload of a call that failed after assembling it
Poisoned(file) == file.data_stream # <<>> /\ file.tag_info = <<>> /\ ~file.is_loaded

\* C23: a read_tag that fails on the magic or the version of the tag header
\* leaves the entry with the assembled payload in data_stream, without
\* tag_info and not loaded, and a later read_tag on such an entry reads the
\* archive again instead of returning the entry as it is
C23_Poisoned ==
    /\ TagHeaderRefused =>
          /\ Poisoned(After)
          /\ Len(Payload(After)) = After.total_uncompressed_size
          /\ (Before.block_count = 0
                /\ Before.total_compressed_size = Before.total_uncompressed_size) =>
                /\ InSource(Before, op.file_offset, Before.total_compressed_size)
                /\ Payload(After) = SourceBytes(Before, op.file_offset,
                                                Before.total_compressed_size)
    /\ (ReadCall /\ Poisoned(Before)) =>
          /\ op.reads # <<>>
          /\ op.reads[1] = [pos |-> op.file_offset,
                            len |-> IF Before.block_count = 0
                                    THEN Before.total_compressed_size
                                    ELSE blocks[Before.block_index + 1].compressed_size]

\* a poisoned entry is read again: the archive is read and the header refused
\* once more
C23_Witness ==
    /\ TagHeaderRefused /\ Poisoned(Before) /\ Poisoned(After)
    /\ op.reads # <<>>
    /\ op.err.kind = "TagError::IncorrectVersion"

\* C24: read_tag on an entry that is loaded reads nothing from the archive,
\* calls no decompressor and returns the entry as it was, its payload, the
\* position of its cursor and its tag_info included: a second read_tag adds
\* nothing to the first
C24_LoadedNoOp ==
    (ReadCall /\ Before.is_loaded) =>
        /\ op.result = "entry"
        /\ op.reads = <<>> /\ op.kraken = <<>>
        /\ After.data_stream = Before.data_stream
        /\ After.tag_info = Before.tag_info
        /\ After = Before

\* read_tag is called on a parsed tag, its cursor behind the tag header
C24_Witness ==
    /\ op.name = "read_tag" /\ op.before # <<>>
    /\ Before.is_loaded /\ Before.tag_info # <<>>
    /\ Before.data_stream # <<>> /\ Before.data_stream[1].pos > 0
    /\ After = Before

\* C26, as claimed: once the caller has dropped the payload of an entry, a
\* later read_tag on it brings the payload back; in every state reached by
\* open, read_tag and the caller dropping payloads, an entry that is loaded
\* has a payload
C26_Rematerialized ==
    /\ IsOpen => \A i \in 1..Len(files) :
                    files[i].is_loaded => files[i].data_stream # <<>>
    /\ (ReadCall /\ op.result = "entry") => After.data_stream # <<>>

----------------------------------------------------------------------------
(* What the claims speak of: the accessors called again *)

\* the entry with its cursor where read_tag left it: behind the tag header
AsRead(file) == [file EXCEPT !.data_stream[1].pos = file.uncompressed_header_size]

\* the last call handed back what out holds
SameOutcome(out) ==
    op.result = out.result /\ op.err = out.err /\ returned.val = out.val

\* C25, as claimed: on a loaded tag read_metadata::<T> hands back the same
\* result every time it is called, whatever calls of read_metadata and
\* get_raw_data came before: the result it hands back on the entry as
\* read_tag left it
C25_SameMetadata ==
    (op.name = "read_metadata" /\ Before.is_loaded /\ Before.data_stream # <<>>
        /\ Before.tag_info # <<>>) =>
        SameOutcome(FileReadMetadata(AsRead(Before), returned.given.layout,
                                     archive.checked))

----------------------------------------------------------------------------
(* What the claims speak of: fixed strings *)

\* the bytes the last read_fixed_string was to read, when the archive has them
Asked == Slice(archive.data, returned.given.position, returned.given.length)

StringCall ==
    /\ op.name = "read_fixed_string"
    /\ returned.given.position + returned.given.length <= Len(archive.data)

AllFF(bytes) == \A i \in 1..Len(bytes) : bytes[i] = 255

\* C21: read_fixed_string(4) on the four bytes 0xFF 0xFF 0xFF 0xFF returns the
\* empty string, not a UTF-8 error, and leaves the reader four bytes on
C21_FourFF ==
    (StringCall /\ returned.given.length = 4 /\ Asked = <<255, 255, 255, 255>>) =>
        /\ op.result = "ok"
        /\ returned.val = <<>>
        /\ returned.pos = returned.given.position + 4

\* four bytes of 0xFF are read from the middle of the data
C21_Witness ==
    /\ StringCall /\ returned.given.length = 4 /\ returned.given.position = 4
    /\ Asked = <<255, 255, 255, 255>>
    /\ Len(archive.data) > 8
    /\ op.result = "ok" /\ returned.val = <<>> /\ returned.pos = 8

\* C22, as claimed: read_fixed_string(length) returns the empty string
\* whenever all of the length bytes read are 0xFF, for every length, the 32
\* and 256 bytes of the string fields included; otherwise it returns the bytes
\* as a string when they are UTF-8, and fails with the UTF-8 error when not
C22_AnyLengthFF ==
    StringCall =>
        IF AllFF(Asked) THEN op.result = "ok" /\ returned.val = <<>>
        ELSE IF Utf8Valid(Asked) THEN op.result = "ok" /\ returned.val = Asked
        ELSE op.result = "error" /\ op.err.kind = "Utf8ReadingError"

----------------------------------------------------------------------------
(* What the claims speak of: data buffers and resources *)

\* C27: FieldData::load_data and FieldTagResource::load_resource leave the
\* reader where it stood when they were called whenever they return Ok, a
\* data reference or a struct definition and its datablock found or not
C27_ReaderRestored ==
    (op.name \in {"load_data", "load_resource"} /\ op.result = "ok") =>
        returned.pos = returned.given.position

\* a resource has been read with the records under it, the reader standing
\* behind the main record before and after
C27_Witness ==
    /\ op.name = "load_resource" /\ op.result = "ok"
    /\ returned.given.position = TagParts.leaves
    /\ returned.pos = TagParts.leaves
    /\ Len(returned.val.elements) = 1
    /\ Len(returned.val.elements[1].fields[2].elements) = 2
    /\ \E i \in 1..Len(returned.trace) :
          returned.trace[i].ev = "read" /\ returned.trace[i].at > TagParts.leaves

\* the data references load_data chooses among, and the datablock it has found
CallRefs ==
    SelectSeq(TagInfoBefore.data_references,
              LAMBDA x : x.field_block = returned.given.parent_index)

DataFound ==
    /\ op.name = "load_data"
    /\ returned.given.parent_struct_index < Len(CallRefs)
    /\ CallRefs[returned.given.parent_struct_index + 1].target_index
          \in 0..(Len(TagInfoBefore.datablock_definitions) - 1)

DataBlockAsked ==
    TagInfoBefore.datablock_definitions[
        CallRefs[returned.given.parent_struct_index + 1].target_index + 1]

\* where the section of a datablock begins
SectionBase(block, hdr) ==
    CASE block.section_type \in {"Header", "TagData"} -> 0
      [] block.section_type = "ResourceData" -> hdr.data_size
      [] block.section_type = "ActualResource" -> hdr.data_size + hdr.resource_size

\* C29, as claimed: get_offset of a datablock is the base of its section plus
\* its offset, the base being 0 for Header and TagData, data_size for
\* ResourceData and data_size + resource_size for ActualResource, and the
\* sum is the sum of the integers, without wrap-around, whatever the sizes
\* and the offset: load_data seeks there first
C29_SectionOffset ==
    DataFound =>
        /\ op.result # "panic"
        /\ returned.trace # <<>>
        /\ returned.trace[1]
              = Event("seek",
                      SectionBase(DataBlockAsked, TagInfoBefore.header)
                          + DataBlockAsked.offset,
                      0, "", <<>>)

====
